---- MODULE Spec2Model ----
(***************************************************************************)
(* Model of the SecuBot gamification rule engine                           *)
(* (src/app/engines/rule_engine): the orchestrator process_event, the      *)
(* condition evaluator, the action executor and the badge evaluator, run   *)
(* by asyncio tasks that interleave at their persistence awaits.           *)
(*                                                                         *)
(* Abstractions: a condition string is kept in the tokenised form the      *)
(* regular expressions of matchers.py split it into; uuid4() is a fresh    *)
(* counter value; timestamps are left out.                                 *)
(***************************************************************************)
EXTENDS Integers, Sequences, FiniteSets, TLC

VARIABLES catalog, call, ledger, awards, notifications, alerts, nextId, faults,
          started, reeval, file, loader, probe

vars == <<catalog, call, ledger, awards, notifications, alerts, nextId, faults,
          started, reeval, file, loader, probe>>

(***************************************************************************)
(* Bounds                                                                  *)
(***************************************************************************)
\* number of persistence operations the environment may make fail
MaxFaults == 1

\* number of process_event calls made one after the other
MaxEvents == 2

\* number of load() and reload() calls made on the loader after its first load
MaxReloads == 3

\* the concurrent process_event calls (asyncio tasks)
Calls == {"c1", "c2"}

(***************************************************************************)
(* Values, entities and contexts                                           *)
(***************************************************************************)
\* Python values: None, a str, an int, a list
NoneVal == [t |-> "none"]
StrV(x) == [t |-> "str", s |-> x]
IntV(x) == [t |-> "int", n |-> x]
ListV(x) == [t |-> "list", l |-> x]
\* a datetime, as the seconds since the start of the day the model begins
TimeV(x) == [t |-> "time", ts |-> x]

Fields == {"severity", "status", "owner", "user_id", "team_id", "alert_id", "quality",
           "first_seen", "action_ts"}

NoFields == [f \in Fields |-> NoneVal]

\* a context entry: a mapping ("dict"), present but None ("null"), or no key
Dict(fs) == [st |-> "dict", f |-> fs]
NullEntity == [st |-> "null", f |-> NoFields]
AbsentEntity == [st |-> "absent", f |-> NoFields]

AlertCritical ==
  Dict([NoFields EXCEPT !.severity = StrV("CRITICAL"), !.status = StrV("open"),
                        !.owner = StrV("u2"), !.alert_id = StrV("a1")])
AlertLow ==
  Dict([NoFields EXCEPT !.severity = StrV("LOW"), !.status = StrV("open"),
                        !.owner = StrV("u2"), !.alert_id = StrV("a2")])
\* a quality score below the exclusion threshold
AlertLowQuality ==
  Dict([NoFields EXCEPT !.severity = StrV("CRITICAL"), !.status = StrV("open"),
                        !.owner = StrV("u2"), !.alert_id = StrV("a1"),
                        !.quality = IntV(10)])
\* marked false positive, its quality given as text instead of a score
AlertFalsePositive ==
  Dict([NoFields EXCEPT !.severity = StrV("CRITICAL"), !.status = StrV("false_positive"),
                        !.owner = StrV("u2"), !.alert_id = StrV("a1"),
                        !.quality = StrV("low")])
RemediationU1 ==
  Dict([NoFields EXCEPT !.user_id = StrV("u1"), !.team_id = StrV("t1"),
                        !.status = StrV("pending")])
RemediationU2 ==
  Dict([NoFields EXCEPT !.user_id = StrV("u2"), !.status = StrV("pending")])
\* a remediation nobody is assigned to: it has no user_id
RemediationUnassigned ==
  Dict([NoFields EXCEPT !.team_id = StrV("t1"), !.status = StrV("pending")])

\* the contexts a caller hands to process_event
Contexts ==
  { [Alert |-> AlertCritical, Remediation |-> RemediationU1],
    [Alert |-> AlertCritical, Remediation |-> RemediationU2],
    [Alert |-> AlertLow, Remediation |-> RemediationU1],
    [Alert |-> AlertLow, Remediation |-> RemediationUnassigned],
    [Alert |-> AlertLowQuality, Remediation |-> RemediationU1],
    [Alert |-> AlertFalsePositive, Remediation |-> RemediationU1],
    [Alert |-> AlertCritical, Remediation |-> NullEntity],
    [Alert |-> AlertLow, Remediation |-> AbsentEntity],
    [Alert |-> AbsentEntity, Remediation |-> RemediationU1] }

Events == {"rescan_completed", "grace_period_expired"}

\* "Entity" in context (the key is present, whatever its value)
InContext(ctx, ent) == ctx[ent].st # "absent"

(***************************************************************************)
(* Condition evaluator (condition_evaluator/)                              *)
(* A result is [ok |-> TRUE, v |-> value] or Raised (an exception).        *)
(***************************************************************************)
Ok(v) == [ok |-> TRUE, v |-> v]
Raised == [ok |-> FALSE]

\* the forms PatternMatcher recognises, and text that matches none of them
Cmp(ref, op, rhs) == [kind |-> "cmp", ref |-> ref, op |-> op, rhs |-> rhs]
NotExists(ent) == [kind |-> "not_exists", ref |-> <<ent>>, op |-> "", rhs |-> NoneVal]
Malformed == [kind |-> "malformed", ref |-> <<>>, op |-> "", rhs |-> NoneVal]

\* ReferenceResolver._navigate_properties
_navigate_properties(entity, path) ==
  IF entity.st = "null" \/ Len(path) # 1 \/ path[1] \notin Fields
  THEN NoneVal
  ELSE entity.f[path[1]]

\* ReferenceResolver.resolve with ReferenceParser.parse
resolve(ctx, ref) ==
  IF Len(ref) < 2 THEN Raised                       \* ValueError
  ELSE IF ~InContext(ctx, ref[1]) THEN Raised       \* KeyError
  ELSE Ok(_navigate_properties(ctx[ref[1]], Tail(ref)))

\* variant: None sorts before every other value, as in a store's ordering
_compare_with_none_ordered(left, op, right) ==
  CASE op \in {"==", "<=", ">="} /\ left = right -> TRUE
    [] op \in {"!=", "<", "<="} /\ left = NoneVal /\ right # NoneVal -> TRUE
    [] op \in {"!=", ">", ">="} /\ left # NoneVal /\ right = NoneVal -> TRUE
    [] OTHER -> FALSE

\* ComparisonOperator._compare_with_none
_compare_with_none(left, op, right) ==
  IF op = "==" THEN left = right
  ELSE IF op = "!=" THEN left # right
  ELSE FALSE

InList(v, l) == \E i \in 1..Len(l) : l[i] = v

\* left <op> right for an ordering operator: Python orders int with int only
\* here (str with str is not used by the catalog), anything else is a TypeError
Ordered(left, op, right) ==
  IF left.t = "int" /\ right.t = "int"
  THEN Ok(CASE op = "<" -> left.n < right.n
            [] op = ">" -> left.n > right.n
            [] op = "<=" -> left.n <= right.n
            [] OTHER -> left.n >= right.n)
  ELSE Raised

\* left in right: membership in a list, part of a string (no string of the
\* model is part of another one), a TypeError for anything else
Contains(right, left) ==
  IF right.t = "list" THEN Ok(InList(left, right.l))
  ELSE IF right.t = "str" /\ left.t = "str" THEN Ok(left.s = right.s)
  ELSE Raised

\* ComparisonOperator.compare
compare(left, op, right) ==
  IF left = NoneVal \/ right = NoneVal THEN Ok(_compare_with_none(left, op, right))
  ELSE CASE op = "==" -> Ok(left = right)
         [] op = "!=" -> Ok(left # right)
         [] op \in {"<", ">", "<=", ">="} -> Ordered(left, op, right)
         [] op = "IN" -> Contains(right, left)
         [] op = "NOT IN" ->
              IF Contains(right, left).ok THEN Ok(~Contains(right, left).v) ELSE Raised
         [] OTHER -> Raised                          \* Unsupported operator

\* ContextChecker.entity_exists
entity_exists(ctx, ent) == InContext(ctx, ent) /\ ctx[ent].st # "null"

\* a temporal condition "(ref - ref2) op N unit", the unit as it is spelled
TimeCmp(ref, ref2, op, n, unit) ==
  [kind |-> "time", ref |-> ref, ref2 |-> ref2, op |-> op, rhs |-> IntV(n), unit |-> unit]

\* TimeUnitConverter.UNIT_TO_SECONDS
UNIT_TO_SECONDS ==
  [u \in {"second", "minute", "hour", "day"} |->
     CASE u = "second" -> 1 [] u = "minute" -> 60 [] u = "hour" -> 3600 [] OTHER -> 86400]

\* unit.lower().rstrip('s') on the spellings the time pattern lets through
RStripS(unit) ==
  CASE unit \in {"second", "seconds"} -> "second"
    [] unit \in {"minute", "minutes"} -> "minute"
    [] unit \in {"hour", "hours"} -> "hour"
    [] unit \in {"day", "days"} -> "day"
    [] OTHER -> unit

\* TimeUnitConverter.to_seconds
to_seconds(value, unit) ==
  IF RStripS(unit) \notin DOMAIN UNIT_TO_SECONDS THEN Raised     \* Unsupported time unit
  ELSE Ok(value * UNIT_TO_SECONDS[RStripS(unit)])

\* TimeEvaluator._ensure_datetime: a datetime is kept; no text of the model
\* parses as a date; anything else is a ValueError
_ensure_datetime(value) == IF value.t = "time" THEN Ok(value.ts) ELSE Raised

\* TimeEvaluator._calculate_time_delta, in seconds
_calculate_time_delta(ctx, ref, ref2) ==
  LET ts1 == resolve(ctx, ref)
      ts2 == resolve(ctx, ref2)
  IN IF ~ts1.ok \/ ~ts2.ok THEN Raised
     ELSE IF ~_ensure_datetime(ts1.v).ok \/ ~_ensure_datetime(ts2.v).ok THEN Raised
     ELSE Ok(_ensure_datetime(ts1.v).v - _ensure_datetime(ts2.v).v)

\* TimeEvaluator.evaluate
TimeEvaluator_evaluate(ctx, ref, ref2, op, threshold, unit) ==
  LET delta == _calculate_time_delta(ctx, ref, ref2)
      threshold_seconds == to_seconds(threshold, unit)
  IN IF ~delta.ok \/ ~threshold_seconds.ok THEN Raised
     ELSE compare(IntV(delta.v), op, IntV(threshold_seconds.v))

\* PatternMatcher.is_time_comparison: a parenthesis, and one of the words
\* hours, days, minutes, seconds somewhere in the text (no reference of the
\* model contains one)
is_time_comparison(cond) ==
  cond.kind = "time" /\ cond.unit \in {"hours", "days", "minutes", "seconds"}

\* PatternMatcher.match_time_comparison finds a match
match_time_comparison(cond) ==
  /\ cond.op \in {"==", "!=", "<=", ">=", "<", ">"}
  /\ RStripS(cond.unit) \in DOMAIN UNIT_TO_SECONDS

\* ConditionEvaluator.evaluate; text that opens with a parenthesis and is not
\* taken as temporal does not match the comparison pattern
evaluate(ctx, cond) ==
  CASE cond.kind = "not_exists" -> Ok(~entity_exists(ctx, cond.ref[1]))
    [] cond.kind = "time" ->
         IF is_time_comparison(cond) /\ match_time_comparison(cond)
         THEN TimeEvaluator_evaluate(ctx, cond.ref, cond.ref2, cond.op, cond.rhs.n,
                                     cond.unit)
         ELSE Raised                                 \* Invalid condition syntax
    [] cond.kind = "cmp" ->
         LET left == resolve(ctx, cond.ref)
         IN IF left.ok THEN compare(left.v, cond.op, cond.rhs) ELSE Raised
    [] OTHER -> Raised                               \* Invalid condition syntax

\* ConditionEvaluator.evaluate_all with operator AND: every condition is
\* evaluated before the results are combined, so one that raises raises
evaluate_all(ctx, conds) ==
  IF \E i \in 1..Len(conds) : ~evaluate(ctx, conds[i]).ok THEN Raised
  ELSE Ok(\A i \in 1..Len(conds) : evaluate(ctx, conds[i]).v)

(***************************************************************************)
(* The rule catalog (loader/models.py RulesDocument) and its queries       *)
(***************************************************************************)
Rule(id, type, active, event, conds, points, recipient, evidence, effects) ==
  [rule_id |-> id, type |-> type, active |-> active, event |-> event,
   conditions |-> conds, points |-> points, recipient |-> recipient,
   evidence |-> evidence, side_effects |-> effects,
   penalty_reason |-> NoneVal, original_alert_status |-> NoneVal]

\* the penalty provenance of an ActionConfig
WithPenalty(r, reason, status) ==
  [r EXCEPT !.penalty_reason = reason, !.original_alert_status = status]

\* side effects of a penalty rule (action_executor.py execute_side_effects)
UpdateAlert == [kind |-> "update_alert", ref |-> <<"Alert", "alert_id">>,
                new_status |-> "verified_persists"]
CreateNotification == [kind |-> "create_notification", ref |-> <<"Alert", "owner">>,
                       new_status |-> ""]

\* a badge criterion (models.py BadgeCriteriaCondition) and its filters
Filter(field, op, value) == [field |-> field, op |-> op, value |-> value]
Criterion(kind, entity, field, filters, op, threshold) ==
  [kind |-> kind, entity |-> entity, field |-> field, filters |-> filters,
   operator |-> op, threshold |-> threshold]
Badge(id, active, type, conds) ==
  [badge_id |-> id, active |-> active, type |-> type, conditions |-> conds]

CurrentUser == [t |-> "current_user"]

Doc ==
  [config |-> [min_points |-> 0, allow_negative |-> TRUE],
   point_rules |-> <<
     Rule("PTS-BAD", "points", TRUE, "rescan_completed", <<Malformed>>, 10,
          <<"Remediation", "user_id">>, <<>>, <<>>),
     Rule("PTS-001", "points", TRUE, "rescan_completed",
          <<Cmp(<<"Alert", "severity">>, "==", StrV("CRITICAL"))>>, 1500,
          <<"Remediation", "user_id">>,
          <<<<"Alert", "alert_id">>, <<"Remediation", "team_id">>>>, <<>>),
     Rule("PTS-004", "points", TRUE, "rescan_completed",
          <<Cmp(<<"Alert", "status">>, "IN", ListV(<<StrV("open")>>))>>, 50,
          <<"Remediation", "user_id">>, <<<<"Alert", "alert_id">>>>, <<>>),
     Rule("PTS-OFF", "points", FALSE, "rescan_completed", <<>>, 5,
          <<"Remediation", "user_id">>, <<>>, <<>>) >>,
   penalty_rules |-> <<
     WithPenalty(
       Rule("PEN-001", "penalty", TRUE, "grace_period_expired",
            <<NotExists("Remediation")>>, -25, <<"Alert", "owner">>,
            <<<<"Alert", "alert_id">>>>, <<UpdateAlert, CreateNotification>>),
       StrV("timeout"), StrV("open")),
     Rule("PEN-002", "penalty", TRUE, "rescan_completed",
          <<Cmp(<<"Alert", "severity">>, "==", StrV("LOW"))>>, -10,
          <<"Alert", "owner">>, <<>>, <<>>) >>,
   exclusion_rules |-> <<
     Rule("EXC-001", "exclusion", TRUE, "",
          <<Cmp(<<"Alert", "quality">>, "<", IntV(30))>>, 0, <<>>, <<>>, <<>>),
     Rule("EXC-002", "exclusion", TRUE, "",
          <<Cmp(<<"Alert", "status">>, "==", StrV("false_positive"))>>, 0,
          <<>>, <<>>, <<>>),
     Rule("EXC-OFF", "exclusion", FALSE, "", <<>>, 0, <<>>, <<>>, <<>>) >>,
   badge_rules |-> <<
     Badge("BDG-BAD", TRUE, "individual",
           <<Criterion("count", "PointTxn", "",
                       <<Filter("user_id", "==", CurrentUser),
                         Filter("points", "<", IntV(0 - 10))>>, ">=", IntV(1)),
             Criterion("count", "Incident", "", <<>>, ">=", IntV(1))>>),
     Badge("BDG-001", TRUE, "individual",
           <<Criterion("count", "PointTxn", "",
                       <<Filter("user_id", "==", CurrentUser),
                         Filter("rule_id", "==", StrV("PTS-001"))>>, ">=", IntV(1))>>),
     Badge("BDG-TEAM", TRUE, "team", <<>>),
     Badge("BDG-OFF", FALSE, "individual", <<>>) >>]


\* the same catalog with an exclusion rule whose condition matches no grammar
DocMalformedExclusion ==
  [Doc EXCEPT !.exclusion_rules =
     Append(@, Rule("EXC-BAD", "exclusion", TRUE, "", <<Malformed>>, 0,
                    <<>>, <<>>, <<>>))]

\* the catalogs rules.yaml may hold
Catalogs == {Doc, DocMalformedExclusion}

\* the same catalog with a badge whose criterion filters one field twice:
\* two transactions of the user with points below 100 and above 0
DocSameFieldFilters ==
  [Doc EXCEPT !.badge_rules =
     Append(@, Badge("BDG-002", TRUE, "individual",
                     <<Criterion("count", "PointTxn", "",
                                 <<Filter("user_id", "==", CurrentUser),
                                   Filter("points", "<", IntV(100)),
                                   Filter("points", ">", IntV(0))>>,
                                 ">=", IntV(2))>>))]

\* the same rules with one badge, whose criterion has no filter on the user:
\* three transactions in the ledger, whoever they belong to
DocUnfilteredBadge ==
  [Doc EXCEPT !.badge_rules =
     <<Badge("BDG-ALL", TRUE, "individual",
             <<Criterion("count", "PointTxn", "", <<>>, ">=", IntV(3))>>)>>]

\* RuleLoader.get_rules_by_type("exclusion")
get_rules_by_type_exclusion(doc) ==
  LET Active(r) == r.active IN SelectSeq(doc.exclusion_rules, Active)

\* variant: the active flag of a rule is not looked at
get_rules_by_event_any(doc, event) ==
  LET Match(r) == r.event = event
  IN SelectSeq(doc.point_rules, Match) \o SelectSeq(doc.penalty_rules, Match)

\* RuleLoader.get_rules_by_event: active point rules, then active penalty rules
get_rules_by_event(doc, event) ==
  LET Match(r) == r.active /\ r.event = event
  IN SelectSeq(doc.point_rules, Match) \o SelectSeq(doc.penalty_rules, Match)

\* RuleLoader.get_all_active_badges
get_all_active_badges(doc) ==
  LET Active(b) == b.active IN SelectSeq(doc.badge_rules, Active)

\* RuleLoader.get_rules_by_type
get_rules_by_type(doc, rule_type) ==
  LET Active(r) == r.active
  IN CASE rule_type = "points" -> SelectSeq(doc.point_rules, Active)
       [] rule_type = "penalty" -> SelectSeq(doc.penalty_rules, Active)
       [] rule_type = "exclusion" -> SelectSeq(doc.exclusion_rules, Active)
       [] rule_type = "badge" -> SelectSeq(doc.badge_rules, Active)
       [] OTHER -> <<>>

\* the catalog with a penalty rule and a badge that reuse the ids of point rules
DocDuplicateIds ==
  [Doc EXCEPT
     !.penalty_rules =
        Append(@, Rule("PTS-004", "penalty", TRUE, "rescan_completed", <<>>, 0 - 5,
                       <<"Alert", "owner">>, <<>>, <<>>)),
     !.badge_rules = Append(@, Badge("PTS-001", TRUE, "individual", <<>>))]

\* what rules.yaml may hold: a document that validates, or one that does not;
\* or the file is not there
Files ==
  {[st |-> "ok", doc |-> d] : d \in Catalogs \cup {DocDuplicateIds}}
  \cup {[st |-> "missing"], [st |-> "invalid"]}

\* the key _build_cache indexes a definition by
IdOf(d) == IF "badge_id" \in DOMAIN d THEN d.badge_id ELSE d.rule_id

\* the definitions _build_cache indexes, in the order it does
AllDefinitions(doc) ==
  doc.point_rules \o doc.penalty_rules \o doc.exclusion_rules \o doc.badge_rules

\* RuleLoader._build_cache: _rules_cache[id] = definition, for the rules and
\* then the badges; an id indexed before is overwritten
_build_cache(cache, doc) ==
  LET all == AllDefinitions(doc)
      ids == {IdOf(all[i]) : i \in 1..Len(all)}
      Last(id) == CHOOSE i \in 1..Len(all) :
                    /\ IdOf(all[i]) = id
                    /\ \A j \in 1..Len(all) : IdOf(all[j]) = id => j <= i
  IN [id \in DOMAIN cache \cup ids |->
        IF id \in ids THEN all[Last(id)] ELSE cache[id]]

\* the loader after a successful load()
Loaded(doc, cache) ==
  [_rules_doc |-> doc, _rules_cache |-> _build_cache(cache, doc), _loaded |-> TRUE]

\* RuleLoader._ensure_loaded, then the query
_ensure_loaded(l, result) == IF l._loaded THEN Ok(result) ELSE Raised

get_rule_by_id(l, rule_id) ==
  _ensure_loaded(l, IF rule_id \in DOMAIN l._rules_cache
                    THEN l._rules_cache[rule_id] ELSE NoneVal)

(***************************************************************************)
(* Point calculator (point_calculator.py)                                  *)
(***************************************************************************)
\* variant: a level is left only above its threshold
calculate_user_level_above(total_points) ==
  IF total_points <= 500 THEN 1
  ELSE IF total_points <= 1500 THEN 2
  ELSE IF total_points <= 4000 THEN 3
  ELSE IF total_points <= 10000 THEN 4
  ELSE 5

\* PointCalculator.calculate_user_level
calculate_user_level(total_points) ==
  IF total_points < 500 THEN 1
  ELSE IF total_points < 1500 THEN 2
  ELSE IF total_points < 4000 THEN 3
  ELSE IF total_points < 10000 THEN 4
  ELSE 5

\* PointCalculator.get_level_info: the bounds of a level; a level off the
\* ladder gets those of level 1
get_level_info(level) ==
  CASE level = 2 -> [min_points |-> 500, max_points |-> IntV(1499)]
    [] level = 3 -> [min_points |-> 1500, max_points |-> IntV(3999)]
    [] level = 4 -> [min_points |-> 4000, max_points |-> IntV(9999)]
    [] level = 5 -> [min_points |-> 10000, max_points |-> NoneVal]
    [] OTHER -> [min_points |-> 0, max_points |-> IntV(499)]

\* round(100 * part / whole, 2), in hundredths of a percent: the integer
\* nearest to 10000 * part / whole (no range of the ladder yields a tie)
PercentHundredths(part, whole) == (2 * 10000 * part + whole) \div (2 * whole)

\* PointCalculator.calculate_progress_to_next_level, the percentage in
\* hundredths
calculate_progress_to_next_level(current_points) ==
  LET current_level == calculate_user_level(current_points)
      current_level_info == get_level_info(current_level)
      next_level_info == get_level_info(current_level + 1)
      level_range == current_level_info.max_points.n - current_level_info.min_points + 1
      points_in_current_level == current_points - current_level_info.min_points
  IN IF current_level = 5
     THEN [current_level |-> 5, next_level |-> NoneVal, points_needed |-> 0,
           progress_percentage |-> 10000]
     ELSE [current_level |-> current_level, next_level |-> IntV(current_level + 1),
           points_needed |-> next_level_info.min_points - current_points,
           progress_percentage |-> PercentHundredths(points_in_current_level,
                                                     level_range)]

\* PointCalculator.get_level_multiplier, in tenths
get_level_multiplier(user_level) ==
  CASE user_level = 3 -> 11
    [] user_level = 4 -> 12
    [] user_level = 5 -> 15
    [] OTHER -> 10

\* variant: the fraction is cut off, as int() does for a positive number
TruncTenths(x) == x \div 10

\* round(x / 10): to the nearest integer, a tie to the even one. The sums the
\* model forms are not ties, or are ties the float holds exactly (a multiple
\* of 0.5 from the multiplier 1.5), so the float rounds as the number does
RoundTenths(x) ==
  LET q == x \div 10
      r == x % 10
  IN IF r < 5 THEN q
     ELSE IF r > 5 THEN q + 1
     ELSE IF q % 2 = 0 THEN q ELSE q + 1

\* PointCalculator.calculate, the multiplier in tenths
calculate(config, base_points, multiplier, bonus_points, penalty_points) ==
  LET final_points == RoundTenths(base_points * multiplier
                                  + 10 * bonus_points - 10 * penalty_points)
  IN IF ~config.allow_negative /\ final_points < config.min_points
     THEN config.min_points
     ELSE final_points

\* PointCalculator.calculate_from_rule
calculate_from_rule(config, rule_points, user_level) ==
  calculate(config, rule_points, get_level_multiplier(user_level), 0, 0)

(***************************************************************************)
(* Helpers of the orchestrator and of the action executor                  *)
(***************************************************************************)
\* Python truthiness of a value
Truthy(v) ==
  CASE v.t = "none" -> FALSE
    [] v.t = "time" -> TRUE
    [] v.t = "str" -> v.s # ""
    [] v.t = "int" -> v.n # 0
    [] OTHER -> Len(v.l) > 0

\* str(value)
ToStr(v) ==
  CASE v.t = "str" -> v.s
    [] v.t = "int" -> ToString(v.n)
    [] v.t = "none" -> "None"
    [] OTHER -> "[...]"

\* variant: whatever the expression yields is turned into a str
_resolve_recipient_str(recipient_expr, ctx) ==
  IF Len(recipient_expr) < 2 THEN NoneVal
  ELSE IF ~InContext(ctx, recipient_expr[1]) THEN NoneVal
  ELSE StrV(ToStr(_navigate_properties(ctx[recipient_expr[1]], Tail(recipient_expr))))

\* RuleEngine._resolve_recipient: a str, or None
_resolve_recipient(recipient_expr, ctx) ==
  IF Len(recipient_expr) < 2 THEN NoneVal
  ELSE IF ~InContext(ctx, recipient_expr[1]) THEN NoneVal
  ELSE LET obj == _navigate_properties(ctx[recipient_expr[1]], Tail(recipient_expr))
       IN IF Truthy(obj) THEN StrV(ToStr(obj)) ELSE NoneVal

\* context.get(E, {}).get(field) if E in context else None: a present entity
\* that is None has no get()
EntityGet(ctx, ent, field) ==
  IF ~InContext(ctx, ent) THEN Ok(NoneVal)
  ELSE IF ctx[ent].st = "null" THEN Raised           \* AttributeError
  ELSE Ok(ctx[ent].f[field])

\* ActionExecutor._resolve_value
_resolve_value(expr, ctx) ==
  IF Len(expr) = 0 THEN NoneVal
  ELSE IF Len(expr) < 2 THEN StrV(expr[1])
  ELSE IF ~InContext(ctx, expr[1]) THEN NoneVal
  ELSE _navigate_properties(ctx[expr[1]], Tail(expr))

\* variant: only the first evidence reference is resolved and stored
_resolve_evidence_first(evidence_list, ctx) ==
  IF evidence_list = <<>> THEN <<>>
  ELSE LET value == _resolve_value(Head(evidence_list), ctx)
       IN IF value # NoneVal THEN <<ToStr(value)>> ELSE <<>>

\* ActionExecutor._resolve_evidence
RECURSIVE _resolve_evidence(_, _)
_resolve_evidence(evidence_list, ctx) ==
  IF evidence_list = <<>> THEN <<>>
  ELSE LET value == _resolve_value(Head(evidence_list), ctx)
           rest == _resolve_evidence(Tail(evidence_list), ctx)
       IN IF value # NoneVal THEN <<ToStr(value)>> \o rest ELSE rest

\* variant: the transaction is built without the penalty provenance
BuildTxnNoProvenance(id, rule, user_id, team_id, points, ctx, penalty) ==
  LET alert_id == EntityGet(ctx, "Alert", "alert_id")
  IN IF ~alert_id.ok THEN Raised
     ELSE Ok([txn_id |-> id, user_id |-> user_id, team_id |-> team_id,
              rule_id |-> rule.rule_id, alert_id |-> alert_id.v,
              points |-> points,
              evidence_refs |-> _resolve_evidence(rule.evidence, ctx),
              penalty_reason |-> NoneVal,
              original_alert_status |-> NoneVal])

\* the transaction execute_point_award builds (lines 67-80); alert_id may raise
BuildTxn(id, rule, user_id, team_id, points, ctx, penalty) ==
  LET alert_id == EntityGet(ctx, "Alert", "alert_id")
  IN IF ~alert_id.ok THEN Raised
     ELSE Ok([txn_id |-> id, user_id |-> user_id, team_id |-> team_id,
              rule_id |-> rule.rule_id, alert_id |-> alert_id.v,
              points |-> points,
              evidence_refs |-> _resolve_evidence(rule.evidence, ctx),
              penalty_reason |->
                IF penalty
                THEN (IF Truthy(rule.penalty_reason) THEN rule.penalty_reason
                      ELSE StrV("unspecified"))
                ELSE NoneVal,
              original_alert_status |->
                IF penalty
                THEN (IF Truthy(rule.original_alert_status)
                      THEN rule.original_alert_status ELSE StrV("unknown"))
                ELSE NoneVal])

\* the summary execute_point_award returns (lines 88-93)
Summary(txn) == [txn_id |-> txn.txn_id, points |-> txn.points, user_id |-> txn.user_id]

(***************************************************************************)
(* Badge evaluator helpers (badge_evaluator.py)                            *)
(***************************************************************************)
\* the operators _build_query_from_filters turns into a query entry
QueryOps == {"==", "!=", ">", "<", ">=", "<=", "IN"}

\* the value of a filter: current_user is the evaluated user
FilterValue(f, user_id) == IF f.value = CurrentUser THEN StrV(user_id) ELSE f.value

\* _build_query_from_filters: the query keeps one entry per field, the one of
\* the last filter on that field
_build_query_from_filters(filters, user_id) ==
  LET Used == {i \in 1..Len(filters) : filters[i].op \in QueryOps}
      Last == {i \in Used : \A j \in Used : filters[j].field = filters[i].field => j <= i}
  IN {[field |-> filters[i].field, op |-> filters[i].op,
       value |-> FilterValue(filters[i], user_id)] : i \in Last}

\* a field of a stored point transaction, as the query sees it
DocField(doc, field) ==
  CASE field = "user_id" -> StrV(doc.user_id)
    [] field = "rule_id" -> StrV(doc.rule_id)
    [] field = "points" -> IntV(doc.points)
    [] field = "team_id" -> doc.team_id
    [] field = "alert_id" -> doc.alert_id
    [] OTHER -> NoneVal

\* one query entry against one document, as the store matches it
MatchEntry(v, e) ==
  CASE e.op = "==" -> v = e.value
    [] e.op = "!=" -> v # e.value
    [] e.op = "IN" -> IF e.value.t = "list" THEN InList(v, e.value.l) ELSE v = e.value
    [] OTHER -> v.t = "int" /\ e.value.t = "int" /\ Ordered(v, e.op, e.value).v

Matching(docs, query) ==
  {i \in 1..Len(docs) : \A e \in query : MatchEntry(DocField(docs[i], e.field), e)}

RECURSIVE SumPoints(_, _, _)
SumPoints(docs, idxs, field) ==
  IF idxs = {} THEN 0
  ELSE LET i == CHOOSE j \in idxs : TRUE
           v == DocField(docs[i], field)
       IN (IF v.t = "int" THEN v.n ELSE 0) + SumPoints(docs, idxs \ {i}, field)

\* _compare_values: an ordering against a threshold of None is a TypeError
_compare_values(value, operator, threshold) ==
  CASE operator = "==" -> Ok(threshold.t = "int" /\ value = threshold.n)
    [] operator = "!=" -> Ok(~(threshold.t = "int" /\ value = threshold.n))
    [] operator \in {">", "<", ">=", "<="} -> Ordered(IntV(value), operator, threshold)
    [] OTHER -> Ok(FALSE)

\* _get_collection: the collections the model keeps; an unknown entity has none
KnownEntities == {"PointTxn", "Alert", "Remediation", "RescanResult"}

\* _evaluate_count_condition, _evaluate_sum_condition and
\* _evaluate_distinct_count_condition against the stored transactions
EvaluateCriterion(cond, user_id, txns) ==
  IF cond.entity \notin KnownEntities THEN Raised     \* AttributeError on None
  ELSE LET docs == IF cond.entity = "PointTxn" THEN txns ELSE <<>>
           hit == Matching(docs, _build_query_from_filters(cond.filters, user_id))
       IN CASE cond.kind = "count" ->
                 _compare_values(Cardinality(hit), cond.operator, cond.threshold)
            [] cond.kind = "sum" ->
                 _compare_values(SumPoints(docs, hit, cond.field), cond.operator,
                                 cond.threshold)
            [] cond.kind = "distinct_count" ->
                 _compare_values(Cardinality({DocField(docs[i], cond.field) : i \in hit}),
                                 cond.operator, cond.threshold)
            [] OTHER -> Ok(FALSE)

\* the next badge at or after position from that evaluate_user_badges does not
\* skip for its scope; 0 when there is none
NextIndividual(badges, from) ==
  LET S == {i \in from..Len(badges) : badges[i].type = "individual"}
  IN IF S = {} THEN 0 ELSE CHOOSE i \in S : \A j \in S : i <= j

\* an award of the badge to the user is stored
HasAward(aw, user_id, badge_id) ==
  \E i \in 1..Len(aw) : aw[i].user_id = user_id /\ aw[i].badge_id = badge_id

\* variant: a lookup that never finds the prior award
existing_award_never(aw, user_id, badge_id) == FALSE

\* db.awards.find_one({"badge_id": b, "user_id": u}) is not None
existing_award(aw, user_id, badge_id) == HasAward(aw, user_id, badge_id)

(***************************************************************************)
(* State                                                                   *)
(*   catalog        the RulesDocument the global RuleLoader has loaded     *)
(*   call[p]        one process_event call: its position (pc), arguments,  *)
(*                  locals and the results dict it builds                  *)
(*   ledger         db.point_transactions, in insertion order              *)
(*   awards         db.awards, in insertion order                          *)
(*   notifications  db.notifications                                       *)
(*   alerts         db.alerts: status and lifecycle history per alert_id   *)
(*   nextId         the source of uuid4() values                           *)
(*   faults         persistence writes that have failed so far             *)
(*   started        process_event calls made so far                        *)
(*   reeval         history: some criteria were evaluated for a            *)
(*                  (user, badge) already in awards                        *)
(*   file           what rules.yaml holds                                  *)
(*   loader         the RuleLoader: _rules_doc, _rules_cache, _loaded, and *)
(*                  its history: calls made; base, the index built by the  *)
(*                  first load of the current source on an empty cache;    *)
(*                  sameSource, the source is the one base was built from  *)
(*                  and was loaded on an empty cache; seen, the last query *)
(*                  made since the last load or reload and what it         *)
(*                  returned                                               *)
(***************************************************************************)
EmptyResults ==
  [rules_evaluated |-> 0, rules_triggered |-> 0, points_awarded |-> <<>>,
   penalties_applied |-> <<>>, badges_awarded |-> <<>>, exclusions |-> <<>>]

NoContext == [Alert |-> AbsentEntity, Remediation |-> AbsentEntity]

IdleCall ==
  [pc |-> "idle", event |-> "", ctx |-> NoContext, results |-> EmptyResults,
   rules |-> <<>>, idx |-> 0, user_id |-> "", txn |-> NoneVal, eff |-> 0,
   users |-> {}, bidx |-> 0, cidx |-> 0, newly |-> <<>>,
   \* history of the call
   visited |-> <<>>, executed |-> <<>>, errors |-> <<>>, lost |-> <<>>,
   raisedBy |-> "", evaluatedFor |-> {}, skipped |-> {}, written |-> <<>>,
   writes |-> 0, passes |-> <<>>, effects |-> <<>>, failedEffects |-> <<>>]

AlertIds == {"a1", "a2"}

NotAsked == [q |-> "none"]

\* the loader after RuleLoader(path) and its first load() (singleton.py 36-38)
FirstLoad(doc) ==
  [_rules_doc |-> doc, _rules_cache |-> _build_cache(<<>>, doc), _loaded |-> TRUE,
   calls |-> 0, base |-> _build_cache(<<>>, doc), sameSource |-> TRUE,
   seen |-> NotAsked]

\* the store is empty and no call has been made
StoreInit ==
  /\ call = [p \in Calls |-> IdleCall]
  /\ ledger = <<>>
  /\ awards = <<>>
  /\ notifications = <<>>
  /\ alerts = [a \in AlertIds |-> [status |-> "open", history |-> 0]]
  /\ nextId = 1
  /\ faults = 0
  /\ started = 0
  /\ reeval = FALSE

\* RuleEngine(db): the engine takes the global loader, which has loaded
\* rules.yaml (engine.py 49, singleton.py 36-38)
EngineInit(catalogs) ==
  /\ catalog \in catalogs
  /\ StoreInit
  /\ file = [st |-> "ok", doc |-> catalog]
  /\ loader = FirstLoad(catalog)

\* no function of the library has been called on its own
InitWith(catalogs) == EngineInit(catalogs) /\ probe = NotAsked

Init == InitWith(Catalogs)

Set(p, c) == call' = [call EXCEPT ![p] = c]

\* RuleEngine._should_exclude over the active exclusion rules, in order
RECURSIVE _should_exclude(_, _)
_should_exclude(exclusion_rules, ctx) ==
  IF exclusion_rules = <<>> THEN Ok(FALSE)
  ELSE LET r == evaluate_all(ctx, Head(exclusion_rules).conditions)
       IN IF ~r.ok THEN Raised
          ELSE IF r.v THEN Ok(TRUE)
          ELSE _should_exclude(Tail(exclusion_rules), ctx)

\* the rule loop moves on to the next rule; a rule that returned normally from
\* _evaluate_and_execute_rule with True is counted (engine.py 110-116)
NextRule(c, triggered) ==
  [c EXCEPT !.idx = @ + 1, !.pc = "rule", !.txn = NoneVal, !.eff = 0, !.user_id = "",
            !.results.rules_triggered = IF triggered THEN @ + 1 ELSE @]

\* variant: the rule's exception leaves the loop and ends the call
RuleFailedAborts(c) ==
  [c EXCEPT !.errors = Append(@, c.rules[c.idx].rule_id),
            !.pc = "raised", !.raisedBy = "rule"]

\* variant: the loop goes on and counts the failed rule as triggered
RuleFailedCounted(c) ==
  NextRule([c EXCEPT !.errors = Append(@, c.rules[c.idx].rule_id)], TRUE)

\* the except branch of the rule loop: the error is printed, the loop goes on
RuleFailed(c) ==
  NextRule([c EXCEPT !.errors = Append(@, c.rules[c.idx].rule_id)], FALSE)

\* process_event up to the rule loop: phases 1 and 2 (engine.py 87-107)
Start(p, event_name, context) ==
  /\ call[p].pc = "idle"
  /\ LET c == [call[p] EXCEPT !.event = event_name, !.ctx = context]
         excl == _should_exclude(get_rules_by_type_exclusion(catalog), context)
         applicable_rules == get_rules_by_event(catalog, event_name)
     IN IF ~excl.ok
        THEN Set(p, [c EXCEPT !.pc = "raised", !.raisedBy = "exclusion"])
        ELSE IF excl.v
        THEN Set(p, [c EXCEPT !.pc = "done",
                              !.results.exclusions =
                                 <<[reason |-> "Event excluded by exclusion rules"]>>])
        ELSE Set(p, [c EXCEPT !.pc = "rule", !.idx = 1, !.rules = applicable_rules,
                              !.results.rules_evaluated = Len(applicable_rules)])
  /\ started' = started + 1
  /\ UNCHANGED <<catalog, ledger, awards, notifications, alerts, nextId, faults, reeval>>

\* the transaction of a rule for a resolved recipient, or the exception raised
\* while its arguments are evaluated (engine.py 190-199, 219-229)
PrepareTxn(c, rule, user_id, points, penalty) ==
  LET team_id == EntityGet(c.ctx, "Remediation", "team_id")
  IN IF ~team_id.ok THEN Raised
     ELSE BuildTxn(nextId, rule, user_id, team_id.v, points, c.ctx, penalty)

\* one turn of the rule loop up to its first await: _evaluate_and_execute_rule
\* evaluates the conditions and resolves the recipient (engine.py 137-181, 203-216)
EvalRule(p) ==
  /\ call[p].pc = "rule"
  /\ call[p].idx <= Len(call[p].rules)
  /\ LET c0 == call[p]
         rule == c0.rules[c0.idx]
         c == [c0 EXCEPT !.visited = Append(@, rule.rule_id)]
         conditions_met == evaluate_all(c.ctx, rule.conditions)
         user_id == _resolve_recipient(rule.recipient, c.ctx)
         ce == [c EXCEPT !.executed = Append(@, rule.rule_id)]
     IN IF ~conditions_met.ok THEN Set(p, RuleFailed(c)) /\ UNCHANGED nextId
        ELSE IF ~conditions_met.v THEN Set(p, NextRule(c, FALSE)) /\ UNCHANGED nextId
        ELSE IF user_id = NoneVal THEN Set(p, NextRule(ce, TRUE)) /\ UNCHANGED nextId
        ELSE IF rule.type = "points"
        THEN Set(p, [ce EXCEPT !.pc = "level", !.user_id = user_id.s]) /\ UNCHANGED nextId
        ELSE LET txn == PrepareTxn(ce, rule, user_id.s, rule.points, TRUE)
             IN IF ~txn.ok THEN Set(p, RuleFailed(ce)) /\ UNCHANGED nextId
                ELSE /\ Set(p, [ce EXCEPT !.pc = "insert", !.user_id = user_id.s,
                                          !.txn = txn.v])
                     /\ nextId' = nextId + 1
  /\ UNCHANGED <<catalog, started, ledger, awards, notifications, alerts, faults, reeval>>

\* the sum _get_user_level aggregates
RECURSIVE Balance(_, _)
Balance(txns, user_id) ==
  IF txns = <<>> THEN 0
  ELSE (IF Head(txns).user_id = user_id THEN Head(txns).points ELSE 0)
       + Balance(Tail(txns), user_id)

\* RuleEngine._get_user_level, once its aggregate has been read
_get_user_level(user_id) == calculate_user_level(Balance(ledger, user_id))

\* _execute_point_rule after the level is known: the points with the level
\* multiplier and the transaction to insert (engine.py 183-199)
Level(p) ==
  /\ call[p].pc = "level"
  /\ LET c == call[p]
         rule == c.rules[c.idx]
         final_points == calculate_from_rule(catalog.config, rule.points,
                                             _get_user_level(c.user_id))
         txn == PrepareTxn(c, rule, c.user_id, final_points, FALSE)
     IN IF ~txn.ok THEN Set(p, RuleFailed(c)) /\ UNCHANGED nextId
        ELSE Set(p, [c EXCEPT !.pc = "insert", !.txn = txn.v]) /\ nextId' = nextId + 1
  /\ UNCHANGED <<catalog, started, ledger, awards, notifications, alerts, faults, reeval>>

\* variant: an upsert keyed by (user_id, rule_id) that replaces the stored document
InsertTxnUpsert(txns, txn) ==
  IF \E i \in 1..Len(txns) : txns[i].user_id = txn.user_id /\ txns[i].rule_id = txn.rule_id
  THEN LET i == CHOOSE k \in 1..Len(txns) :
                  txns[k].user_id = txn.user_id /\ txns[k].rule_id = txn.rule_id
       IN [txns EXCEPT ![i] = txn]
  ELSE Append(txns, txn)

\* db.point_transactions.insert_one: the document is appended
InsertTxn(txns, txn) == Append(txns, txn)

\* the await of insert_one in execute_point_award returns and the rule goes on
\* (action_executor.py 82-93, engine.py 201, 231-238)
Insert(p) ==
  /\ call[p].pc = "insert"
  /\ LET c0 == call[p]
         c == [c0 EXCEPT !.written = Append(@, c0.txn), !.writes = @ + 1]
         rule == c.rules[c.idx]
     IN /\ ledger' = InsertTxn(ledger, c0.txn)
        /\ IF rule.type = "points"
           THEN Set(p, NextRule([c EXCEPT !.results.points_awarded =
                                             Append(@, Summary(c.txn))], TRUE))
           ELSE LET cp == [c EXCEPT !.results.penalties_applied =
                                       Append(@, Summary(c.txn))]
                IN IF Len(rule.side_effects) > 0
                   THEN Set(p, [cp EXCEPT !.pc = "effect", !.eff = 1])
                   ELSE Set(p, NextRule(cp, TRUE))
  /\ UNCHANGED <<catalog, started, awards, notifications, alerts, nextId, faults, reeval>>

\* insert_one raises: the exception leaves execute_point_award and the rule,
\* and the rule loop catches it (engine.py 115-116)
InsertFails(p) ==
  /\ call[p].pc = "insert"
  /\ faults < MaxFaults
  /\ faults' = faults + 1
  /\ Set(p, RuleFailed([call[p] EXCEPT !.lost = Append(@, call[p].txn)]))
  /\ UNCHANGED <<catalog, started, ledger, awards, notifications, alerts, nextId, reeval>>

\* _update_alert: update_one on the alert the reference resolves to
_update_alert(effect, ctx) ==
  LET alert_id == _resolve_value(effect.ref, ctx)
  IN IF alert_id.t = "str" /\ alert_id.s \in AlertIds
     THEN [alerts EXCEPT ![alert_id.s] = [status |-> effect.new_status,
                                          history |-> @.history + 1]]
     ELSE alerts

\* _create_notification: insert_one of a pending notification
_create_notification(effect, ctx) ==
  Append(notifications, [notification_id |-> nextId,
                         target_user_id |-> _resolve_value(effect.ref, ctx)])

\* one side effect of execute_side_effects (action_executor.py 157-168)
Effect(p) ==
  /\ call[p].pc = "effect"
  /\ LET c0 == call[p]
         rule == c0.rules[c0.idx]
         effect == rule.side_effects[c0.eff]
         c == [c0 EXCEPT !.effects = Append(@, [rule_id |-> rule.rule_id,
                                                kind |-> effect.kind])]
     IN /\ IF effect.kind = "update_alert"
           THEN /\ alerts' = _update_alert(effect, c.ctx)
                /\ UNCHANGED <<catalog, started, notifications, nextId>>
           ELSE /\ notifications' = _create_notification(effect, c.ctx)
                /\ nextId' = nextId + 1
                /\ UNCHANGED alerts
        /\ IF c.eff < Len(rule.side_effects)
           THEN Set(p, [c EXCEPT !.eff = @ + 1, !.writes = @ + 1])
           ELSE Set(p, NextRule([c EXCEPT !.writes = @ + 1], TRUE))
  /\ UNCHANGED <<catalog, started, ledger, awards, faults, reeval>>

\* a side effect's write raises: nothing in execute_side_effects catches it,
\* the rule loop does
EffectFails(p) ==
  /\ call[p].pc = "effect"
  /\ faults < MaxFaults
  /\ faults' = faults + 1
  /\ LET c == call[p]
         rule == c.rules[c.idx]
     IN Set(p, RuleFailed([c EXCEPT !.failedEffects =
                             Append(@, [rule_id |-> rule.rule_id,
                                        kind |-> rule.side_effects[c.eff].kind])]))
  /\ UNCHANGED <<catalog, started, ledger, awards, notifications, alerts, nextId, reeval>>

\* variant: only the users of point awards are collected
AffectedUsersOfAwards(results) ==
  {results.points_awarded[i].user_id : i \in 1..Len(results.points_awarded)}

\* the user_ids of the returned transactions (engine.py 119-128)
AffectedUsers(results) ==
  {results.points_awarded[i].user_id : i \in 1..Len(results.points_awarded)}
  \cup {results.penalties_applied[i].user_id : i \in 1..Len(results.penalties_applied)}

\* the rule loop is over: phase 4 starts, or the call returns (engine.py 118-135)
EndRules(p) ==
  /\ call[p].pc = "rule"
  /\ call[p].idx > Len(call[p].rules)
  /\ LET c == call[p]
     IN IF Len(c.results.points_awarded) > 0 \/ Len(c.results.penalties_applied) > 0
        THEN Set(p, [c EXCEPT !.pc = "badges", !.users = AffectedUsers(c.results)])
        ELSE Set(p, [c EXCEPT !.pc = "done"])
  /\ UNCHANGED <<catalog, started, ledger, awards, notifications, alerts, nextId, faults, reeval>>

\* the badges evaluate_user_badges iterates: those of the global loader,
\* whichever loader the engine was constructed with (badge_evaluator.py 59-63)
BadgeRules == get_all_active_badges(loader._rules_doc)

\* evaluate_user_badges moves to the next badge of its loop, or returns its
\* newly_awarded list, which process_event appends to the result
ToBadge(c, from) ==
  LET n == NextIndividual(BadgeRules, from)
  IN IF n = 0
     THEN [c EXCEPT !.pc = "badges", !.bidx = 0, !.cidx = 0, !.user_id = "",
                    !.newly = <<>>,
                    !.results.badges_awarded = @ \o c.newly]
     ELSE [c EXCEPT !.pc = "find", !.bidx = n, !.cidx = 0]

\* process_event takes the next affected user, in the order the set yields,
\* and calls evaluate_user_badges; with no user left it returns
\* (engine.py 131-135, badge_evaluator.py 57-68)
Badges(p) ==
  /\ call[p].pc = "badges"
  /\ LET c == call[p]
     IN IF c.users = {}
        THEN Set(p, [c EXCEPT !.pc = "done"])
        ELSE \E u \in c.users :
               Set(p, ToBadge([c EXCEPT !.users = @ \ {u}, !.user_id = u,
                                        !.newly = <<>>,
                                        !.passes = Append(@, u)], 1))
  /\ UNCHANGED <<catalog, started, ledger, awards, notifications, alerts, nextId, faults, reeval>>

\* the prior-award lookup returns (badge_evaluator.py 70-77); a badge with no
\* criteria meets them without a read
Find(p) ==
  /\ call[p].pc = "find"
  /\ LET c == call[p]
         badge == BadgeRules[c.bidx]
     IN IF existing_award(awards, c.user_id, badge.badge_id)
        THEN Set(p, ToBadge([c EXCEPT !.skipped = @ \cup {<<c.user_id, badge.badge_id>>}],
                            c.bidx + 1))
        ELSE IF Len(badge.conditions) = 0
        THEN Set(p, [c EXCEPT !.pc = "award"])
        ELSE Set(p, [c EXCEPT !.pc = "criteria", !.cidx = 1])
  /\ UNCHANGED <<catalog, started, ledger, awards, notifications, alerts, nextId, faults, reeval>>

\* the read of one criterion returns (badge_evaluator.py 118-157); an
\* exception leaves evaluate_user_badges and process_event
Criteria(p) ==
  /\ call[p].pc = "criteria"
  /\ LET c0 == call[p]
         badge == BadgeRules[c0.bidx]
         c == [c0 EXCEPT !.evaluatedFor = @ \cup {<<c0.user_id, badge.badge_id>>}]
         result == EvaluateCriterion(badge.conditions[c.cidx], c.user_id, ledger)
     IN /\ reeval' = (reeval \/ HasAward(awards, c.user_id, badge.badge_id))
        /\ IF ~result.ok
           THEN Set(p, [c EXCEPT !.pc = "raised", !.raisedBy = "badge_criteria"])
           ELSE IF ~result.v THEN Set(p, ToBadge(c, c.bidx + 1))
           ELSE IF c.cidx < Len(badge.conditions) THEN Set(p, [c EXCEPT !.cidx = @ + 1])
           ELSE Set(p, [c EXCEPT !.pc = "award"])
  /\ UNCHANGED <<catalog, started, ledger, awards, notifications, alerts, nextId, faults>>

\* variant: the awards collection without its unique index
UniqueAwardNoIndex(aw, user_id, badge_id) == TRUE

\* the unique index idx_user_badge_unique on awards (user_id, badge_id)
UniqueAward(aw, user_id, badge_id) == ~HasAward(aw, user_id, badge_id)

\* award_badge: insert_one of the award (badge_evaluator.py 327-339)
Award(p) ==
  /\ call[p].pc = "award"
  /\ LET c == call[p]
         badge == BadgeRules[c.bidx]
         award == [award_id |-> nextId, badge_id |-> badge.badge_id,
                   user_id |-> c.user_id]
     IN IF UniqueAward(awards, c.user_id, badge.badge_id)
        THEN /\ awards' = Append(awards, award)
             /\ nextId' = nextId + 1
             /\ Set(p, ToBadge([c EXCEPT !.newly = Append(@, award),
                                         !.writes = @ + 1], c.bidx + 1))
        ELSE /\ Set(p, [c EXCEPT !.pc = "raised", !.raisedBy = "award_duplicate"])
             /\ nextId' = nextId + 1
             /\ UNCHANGED awards
  /\ UNCHANGED <<catalog, started, ledger, notifications, alerts, faults, reeval>>

\* the insert of the award raises: award_badge, evaluate_user_badges and
\* process_event let the exception through
AwardFails(p) ==
  /\ call[p].pc = "award"
  /\ faults < MaxFaults
  /\ faults' = faults + 1
  /\ Set(p, [call[p] EXCEPT !.pc = "raised", !.raisedBy = "award_write"])
  /\ UNCHANGED <<catalog, started, ledger, awards, notifications, alerts, nextId, reeval>>

Step(p) ==
  \/ EvalRule(p)
  \/ Level(p)
  \/ Insert(p)
  \/ InsertFails(p)
  \/ Effect(p)
  \/ EffectFails(p)
  \/ EndRules(p)
  \/ Badges(p)
  \/ Find(p)
  \/ Criteria(p)
  \/ Award(p)
  \/ AwardFails(p)

\* asyncio tasks running process_event, interleaved at their awaits; the
\* catalog is not reloaded meanwhile
Next ==
  /\ \E p \in Calls :
       \/ \E e \in Events, x \in Contexts : Start(p, e, x)
       \/ Step(p)
  /\ UNCHANGED <<file, loader, probe>>

Spec == Init /\ [][Next]_vars

\* the caller has the outcome of a call and may make another one
Return(p) ==
  /\ call[p].pc \in {"done", "raised"}
  /\ started < MaxEvents
  /\ Set(p, IdleCall)
  /\ UNCHANGED <<catalog, started, ledger, awards, notifications, alerts, nextId,
                 faults, reeval>>

\* process_event calls made one after the other by a single task
NextSeq ==
  /\ \/ \E e \in Events, x \in Contexts : Start("c1", e, x)
     \/ Step("c1")
     \/ Return("c1")
  /\ UNCHANGED <<file, loader, probe>>

SeqInit == InitWith(Catalogs \cup {DocSameFieldFilters})

SeqSpec == SeqInit /\ [][NextSeq]_vars

\* two concurrent calls over a catalog with a badge counted over every user
UnfilteredInit == InitWith({DocUnfilteredBadge})

UnfilteredSpec == UnfilteredInit /\ [][Next]_vars

\* RuleEngine(db, rule_loader): the engine is given a loader of its own, which
\* has loaded another catalog than the rules.yaml of the global loader
InjectedInit ==
  /\ catalog \in {DocUnfilteredBadge, DocSameFieldFilters}
  /\ StoreInit
  /\ file = [st |-> "ok", doc |-> Doc]
  /\ loader = FirstLoad(Doc)
  /\ probe = NotAsked

InjectedSpec == InjectedInit /\ [][NextSeq]_vars

(***************************************************************************)
(* The rule loader: load, reload and queries (loader/loader.py)            *)
(***************************************************************************)
EngineVars == <<call, ledger, awards, notifications, alerts, nextId, faults,
                started, reeval>>

\* rules.yaml is edited, replaced by a file that does not validate, or removed
WriteFile(f) ==
  /\ f # file
  /\ file' = f
  /\ loader' = [loader EXCEPT !.sameSource = FALSE]
  /\ UNCHANGED catalog

\* load() on the loader as it is: the cache is not cleared (loader.py 47-66)
Load ==
  /\ loader.calls < MaxReloads
  /\ file.st = "ok"
  /\ loader' = [loader EXCEPT !._rules_doc = file.doc,
                              !._rules_cache = _build_cache(@, file.doc),
                              !._loaded = TRUE,
                              !.calls = @ + 1,
                              !.seen = NotAsked]
  /\ catalog' = file.doc
  /\ UNCHANGED file

\* load() raises FileNotFoundError, or the error of the parse or of the
\* validation: nothing is assigned (loader.py 49-60)
LoadFails ==
  /\ loader.calls < MaxReloads
  /\ file.st # "ok"
  /\ loader' = [loader EXCEPT !.calls = @ + 1]
  /\ UNCHANGED <<catalog, file>>

\* variant: reload() loads first and clears the cache afterwards
ReloadClearsLast ==
  /\ loader.calls < MaxReloads
  /\ file.st = "ok"
  /\ loader' = [loader EXCEPT !._rules_doc = file.doc,
                              !._rules_cache = <<>>,
                              !._loaded = TRUE,
                              !.calls = @ + 1,
                              !.base = IF loader.sameSource THEN @ ELSE <<>>,
                              !.sameSource = TRUE,
                              !.seen = NotAsked]
  /\ catalog' = file.doc
  /\ UNCHANGED file

\* reload(): _loaded = False, the cache is cleared, then load() (loader.py 145-149)
Reload ==
  /\ loader.calls < MaxReloads
  /\ file.st = "ok"
  /\ LET cache == _build_cache(<<>>, file.doc)
     IN loader' = [loader EXCEPT !._rules_doc = file.doc,
                                 !._rules_cache = cache,
                                 !._loaded = TRUE,
                                 !.calls = @ + 1,
                                 !.base = IF loader.sameSource THEN @ ELSE cache,
                                 !.sameSource = TRUE,
                                 !.seen = NotAsked]
  /\ catalog' = file.doc
  /\ UNCHANGED file

\* reload() whose load() raises: the flag and the cache stay as reload left them
ReloadFails ==
  /\ loader.calls < MaxReloads
  /\ file.st # "ok"
  /\ loader' = [loader EXCEPT !._rules_cache = <<>>,
                              !._loaded = FALSE,
                              !.calls = @ + 1,
                              !.seen = NotAsked]
  /\ UNCHANGED <<catalog, file>>

\* the ids asked of get_rule_by_id
QueryIds == {"PTS-001", "PTS-004", "PEN-001", "BDG-001", "EXC-BAD", "PTS-999"}

\* a caller asks get_rules_by_event
QueryByEvent(event) ==
  /\ loader' = [loader EXCEPT !.seen =
       IF loader._loaded
       THEN [q |-> "get_rules_by_event", event |-> event,
             rules |-> get_rules_by_event(loader._rules_doc, event)]
       ELSE [q |-> "get_rules_by_event", event |-> event, raised |-> "RuntimeError"]]
  /\ UNCHANGED <<catalog, file>>

\* a caller asks get_rule_by_id
QueryById(rule_id) ==
  /\ loader' = [loader EXCEPT !.seen =
       LET r == get_rule_by_id(loader, rule_id)
       IN IF r.ok
          THEN [q |-> "get_rule_by_id", id |-> rule_id, found |-> r.v]
          ELSE [q |-> "get_rule_by_id", id |-> rule_id, raised |-> "RuntimeError"]]
  /\ UNCHANGED <<catalog, file>>

NextLoader ==
  /\ \/ \E f \in Files : WriteFile(f)
     \/ Load
     \/ LoadFails
     \/ Reload
     \/ ReloadFails
     \/ \E e \in Events : QueryByEvent(e)
     \/ \E id \in QueryIds : QueryById(id)
  /\ UNCHANGED <<EngineVars, probe>>

LoaderSpec == Init /\ [][NextLoader]_vars

\* RuleLoader(path): nothing is loaded yet (loader.py 41-45); _rules_doc is
\* None until a load() succeeds and is never None again
RuleLoader ==
  [_rules_doc |-> NoneVal, _rules_cache |-> <<>>, _loaded |-> FALSE,
   calls |-> 0, base |-> <<>>, sameSource |-> FALSE, seen |-> NotAsked]

\* a loader that has been constructed and not loaded, over either catalog
FreshInit ==
  /\ catalog \in Catalogs
  /\ StoreInit
  /\ file = [st |-> "ok", doc |-> catalog]
  /\ loader = RuleLoader
  /\ probe = NotAsked

FreshSpec == FreshInit /\ [][NextLoader]_vars

(***************************************************************************)
(* The library functions called on their own: the condition evaluator and  *)
(* the point calculator                                                    *)
(***************************************************************************)
\* COMPARISON_OPERATORS (operators.py 99)
COMPARISON_OPERATORS == {"==", "!=", "<=", ">=", "<", ">", "IN", "NOT IN"}

\* operands handed to compare
Operands ==
  {NoneVal, IntV(10), IntV(30), StrV("high"), StrV("open"), ListV(<<StrV("open")>>)}

\* compare(left, operator, right), also with an operator it does not support
CompareInputs ==
  [fn : {"compare"}, left : Operands, op : COMPARISON_OPERATORS \cup {"LIKE"},
   right : Operands]

\* evaluate(condition) over a context: comparisons of a field of the alert
\* that some contexts carry and some do not
EvaluateInputs ==
  [fn : {"evaluate"}, ctx : Contexts,
   cond : {Cmp(<<"Alert", f>>, op, rhs) :
             f \in {"quality", "status"}, op \in COMPARISON_OPERATORS,
             rhs \in {NoneVal, IntV(30), StrV("open")}}]

Asked(inputs) == {[in |-> i, out |-> NotAsked] : i \in inputs}

Pending(fn) == probe.in.fn = fn /\ probe.out = NotAsked

Answer(out) ==
  /\ probe' = [probe EXCEPT !.out = out]
  /\ UNCHANGED <<catalog, EngineVars, file, loader>>

\* ComparisonOperator.compare is called
Compare ==
  /\ Pending("compare")
  /\ Answer([compare |-> compare(probe.in.left, probe.in.op, probe.in.right)])

\* ConditionEvaluator(context).evaluate is called
Evaluate ==
  /\ Pending("evaluate")
  /\ Answer([evaluate |-> evaluate(probe.in.ctx, probe.in.cond)])

\* an alert first seen at the start of day 0 and a remediation acting 6, 24
\* or 30 hours later
TimeContexts ==
  {[Alert |-> Dict([NoFields EXCEPT !.first_seen = TimeV(0)]),
    Remediation |-> Dict([NoFields EXCEPT !.action_ts = TimeV(h * 3600)])] :
     h \in {6, 24, 30}}

\* the spellings TIME_COMPARISON_PATTERN accepts for a unit
UnitSpellings ==
  {"second", "seconds", "minute", "minutes", "hour", "hours", "day", "days"}

\* evaluate(condition) for temporal conditions on the delay of the remediation
TimeInputs ==
  [fn : {"evaluate"}, ctx : TimeContexts,
   cond : {TimeCmp(<<"Remediation", "action_ts">>, <<"Alert", "first_seen">>, op, n, unit) :
             op \in {"==", "!=", "<=", ">=", "<", ">"}, n \in {1, 24},
             unit \in UnitSpellings}]

\* PointCalculator(min_points, allow_negative)
Configs ==
  {[min_points |-> 0, allow_negative |-> TRUE],
   [min_points |-> 0, allow_negative |-> FALSE],
   [min_points |-> 10, allow_negative |-> FALSE]}

\* base points of a rule, a penalty's among them
BasePoints == {0 - 3, 0, 3, 7, 50, 100}

\* calculate(base_points, user_level_multiplier, bonus_points, penalty_points),
\* the multiplier in tenths
CalculateInputs ==
  [fn : {"calculate"}, config : Configs, base_points : BasePoints,
   multiplier : {10, 11, 12, 15}, bonus_points : {0, 5}, penalty_points : {0, 20}]

\* calculate_from_rule(rule_points, user_level), also for a level off the ladder
CalculateFromRuleInputs ==
  [fn : {"calculate_from_rule"}, config : Configs, rule_points : BasePoints,
   user_level : 0..6]

\* point totals around every step of the ladder, below zero and far above
Totals ==
  {0 - 100, 0 - 1, 0, 499, 500, 501, 1000, 1499, 1500, 3999, 4000, 9999, 10000,
   10001, 20000}

\* calculate_user_level(total_points), called for two totals
LevelInputs == [fn : {"calculate_user_level"}, a : Totals, b : Totals]

\* calculate_progress_to_next_level(current_points)
ProgressInputs == [fn : {"calculate_progress_to_next_level"}, current_points : Totals]

FunctionInputs ==
  CompareInputs \cup EvaluateInputs \cup TimeInputs \cup CalculateInputs
  \cup CalculateFromRuleInputs \cup LevelInputs \cup ProgressInputs

FunctionInit == EngineInit({Doc}) /\ probe \in Asked(FunctionInputs)

\* PointCalculator.calculate is called
Calculate ==
  /\ Pending("calculate")
  /\ Answer([calculate |->
               calculate(probe.in.config, probe.in.base_points, probe.in.multiplier,
                         probe.in.bonus_points, probe.in.penalty_points)])

\* PointCalculator.calculate_from_rule is called
CalculateFromRule ==
  /\ Pending("calculate_from_rule")
  /\ Answer([calculate_from_rule |->
               calculate_from_rule(probe.in.config, probe.in.rule_points,
                                   probe.in.user_level)])

\* PointCalculator.calculate_user_level is called for each of two totals
CalculateUserLevel ==
  /\ Pending("calculate_user_level")
  /\ Answer([levels |-> <<calculate_user_level(probe.in.a),
                          calculate_user_level(probe.in.b)>>])

\* PointCalculator.calculate_progress_to_next_level is called
CalculateProgress ==
  /\ Pending("calculate_progress_to_next_level")
  /\ Answer([progress |-> calculate_progress_to_next_level(probe.in.current_points)])

NextFunction ==
  \/ CalculateProgress
  \/ CalculateUserLevel
  \/ Compare
  \/ Evaluate
  \/ Calculate
  \/ CalculateFromRule

FunctionSpec == FunctionInit /\ [][NextFunction]_vars

(***************************************************************************)
(* Properties                                                              *)
(***************************************************************************)
Started(p) == call[p].pc # "idle"

\* the call was excluded in phase 1
Excluded(p) == Len(call[p].results.exclusions) > 0

\* the call has left its rule loop
PastRules(p) ==
  /\ ~Excluded(p)
  /\ \/ call[p].pc \in {"badges", "find", "criteria", "award", "done"}
     \/ call[p].pc = "raised" /\ call[p].raisedBy # "exclusion"

RuleIds(rules) == [i \in 1..Len(rules) |-> rules[i].rule_id]

\* the rules bound to the call's event, and those of them whose conditions hold
Applicable(p) == get_rules_by_event(catalog, call[p].event)

ConditionsHold(ctx, rule) == evaluate_all(ctx, rule.conditions) = Ok(TRUE)

Holding(p) ==
  LET Holds(r) == ConditionsHold(call[p].ctx, r) IN SelectSeq(Applicable(p), Holds)

\* some active exclusion rule has all its conditions true against the context
ExclusionHolds(ctx) ==
  LET rules == get_rules_by_type_exclusion(catalog)
  IN \E i \in 1..Len(rules) : ConditionsHold(ctx, rules[i])

\* C1 (as claimed): a call whose context satisfies all the conditions of some
\* active exclusion rule returns a result with rules_evaluated = 0,
\* rules_triggered = 0, one exclusion entry, no awards, penalties or badges,
\* and has written nothing.
C1_ExclusionShortCircuits ==
  \A p \in Calls :
    (Started(p) /\ ExclusionHolds(call[p].ctx)) =>
      /\ call[p].pc = "done"
      /\ call[p].results.rules_evaluated = 0
      /\ call[p].results.rules_triggered = 0
      /\ Len(call[p].results.exclusions) = 1
      /\ call[p].results.points_awarded = <<>>
      /\ call[p].results.penalties_applied = <<>>
      /\ call[p].results.badges_awarded = <<>>
      /\ call[p].writes = 0

C3_AwardedIsTerminal ==
  /\ ~reeval
  /\ \A p \in Calls :
       /\ call[p].skipped \cap call[p].evaluatedFor = {}
       /\ LET returned == call[p].results.badges_awarded \o call[p].newly
          IN \A k \in 1..Len(returned) :
               {i \in 1..Len(awards) :
                  /\ awards[i].user_id = returned[k].user_id
                  /\ awards[i].badge_id = returned[k].badge_id}
               = {i \in 1..Len(awards) : awards[i] = returned[k]}
               /\ \E i \in 1..Len(awards) : awards[i] = returned[k]
               /\ <<returned[k].user_id, returned[k].badge_id>> \notin call[p].skipped

\* a later pass found the award of an earlier one and skipped the badge
C3_Witness ==
  \E p \in Calls : call[p].skipped # {} /\ call[p].pc = "done" /\ Len(awards) > 0

\* C4: every step leaves each transaction already in the ledger in place and
\* unchanged; the ledger only grows at its end.
C4_LedgerAppendOnly ==
  [][/\ Len(ledger') >= Len(ledger)
     /\ SubSeq(ledger', 1, Len(ledger)) = ledger]_vars

\* transactions, a side effect and an award have all been written
C4_Witness == Len(ledger) >= 2 /\ Len(awards) >= 1 /\ Len(notifications) >= 1

\* C5 (as claimed): a call that returned a result lost no transaction to a
\* failed write.
C5_WriteFailurePropagates ==
  \A p \in Calls : call[p].pc = "done" => call[p].lost = <<>>

\* C6: once the rule loop is over every rule bound to the event has been
\* evaluated, in order, whatever raised on the way, every one whose conditions
\* hold has had its action run, and no call is ended by a rule's exception.
C6_RuleErrorsIsolated ==
  \A p \in Calls :
    /\ call[p].raisedBy # "rule"
    /\ PastRules(p) =>
         /\ call[p].visited = RuleIds(Applicable(p))
         /\ call[p].executed = RuleIds(Holding(p))

\* a rule raised and a later rule of the same call was executed and paid
C6_Witness ==
  \E p \in Calls :
    /\ call[p].pc = "done"
    /\ Len(call[p].errors) > 0
    /\ Len(call[p].results.points_awarded) > 0
    /\ call[p].errors[1] = call[p].visited[1]

\* C7 (as claimed): no call is ended by an exception raised while a badge's
\* criteria are evaluated.
C7_BadgeErrorsIsolated ==
  \A p \in Calls : call[p].raisedBy # "badge_criteria"

\* the active exclusion rules without those holding a malformed condition
WellFormedExclusions ==
  LET Good(r) == \A i \in 1..Len(r.conditions) : r.conditions[i].kind # "malformed"
  IN SelectSeq(get_rules_by_type_exclusion(catalog), Good)

\* C8 (as claimed): a rule with a malformed condition counts as non-matching,
\* so a call whose exclusion check passes without such rules is not ended by
\* the exclusion check.
C8_MalformedIsLocal ==
  \A p \in Calls :
    (Started(p) /\ _should_exclude(WellFormedExclusions, call[p].ctx).ok)
      => call[p].raisedBy # "exclusion"

\* C9: in every call that is not excluded, rules_evaluated is the number of
\* active point and penalty rules bound to the event, rules_triggered lies
\* between 0 and rules_evaluated, and the rules that raised are not among the
\* triggered ones.
C9_CountsReported ==
  \A p \in Calls :
    (Started(p) /\ ~Excluded(p) /\ call[p].raisedBy # "exclusion") =>
      /\ call[p].results.rules_evaluated = Len(Applicable(p))
      /\ 0 <= call[p].results.rules_triggered
      /\ call[p].results.rules_triggered <= call[p].results.rules_evaluated
      /\ call[p].results.rules_triggered + Len(call[p].errors) <= Len(call[p].visited)

\* a returned result with a rule that raised and fewer triggers than evaluated
C9_Witness ==
  \E p \in Calls :
    /\ call[p].pc = "done"
    /\ Len(call[p].errors) > 0
    /\ call[p].results.rules_triggered > 0
    /\ call[p].results.rules_triggered < call[p].results.rules_evaluated

\* C10 (as claimed): a call that returned and lost no write has appended
\* exactly one transaction for each applicable rule whose conditions hold and
\* whose recipient resolves, and none for any other rule.
C10_RulesFireIndependently ==
  \A p \in Calls :
    (call[p].pc = "done" /\ ~Excluded(p) /\ call[p].lost = <<>>) =>
      LET Pays(r) == /\ ConditionsHold(call[p].ctx, r)
                     /\ _resolve_recipient(r.recipient, call[p].ctx) # NoneVal
      IN RuleIds(call[p].written) = RuleIds(SelectSeq(Applicable(p), Pays))

\* the value an evidence reference Entity.field has in the context, or None
EvidenceValue(ctx, ref) ==
  IF Len(ref) = 2 /\ InContext(ctx, ref[1]) /\ ctx[ref[1]].st = "dict"
  THEN ctx[ref[1]].f[ref[2]] ELSE NoneVal

\* the values of a rule's evidence references that resolve, in declaration order
EvidenceOf(ctx, rule) ==
  LET values == [i \in 1..Len(rule.evidence) |-> EvidenceValue(ctx, rule.evidence[i])]
      Resolved(v) == v # NoneVal
      kept == SelectSeq(values, Resolved)
  IN [i \in 1..Len(kept) |-> ToStr(kept[i])]

\* C11: every transaction in the ledger was written by a call, has a txn_id
\* no other transaction has, and carries the rule_id of an active rule bound
\* to that call's event whose conditions held, the user_id the rule's
\* recipient resolved to, and the rule's evidence references resolved against
\* the call's context in declaration order.
C11_TransactionProvenance ==
  /\ \A i, j \in 1..Len(ledger) : i < j => ledger[i].txn_id # ledger[j].txn_id
  /\ \A i \in 1..Len(ledger) :
       \E p \in Calls : \E k \in 1..Len(call[p].written) : call[p].written[k] = ledger[i]
  /\ \A p \in Calls : \A k \in 1..Len(call[p].written) :
       LET t == call[p].written[k]
       IN /\ \E i \in 1..Len(ledger) : ledger[i] = t
          /\ \E n \in 1..Len(Applicable(p)) :
               LET r == Applicable(p)[n]
               IN /\ r.rule_id = t.rule_id
                  /\ r.active /\ r.event = call[p].event
                  /\ r.type \in {"points", "penalty"}
                  /\ ConditionsHold(call[p].ctx, r)
                  /\ _resolve_recipient(r.recipient, call[p].ctx) = StrV(t.user_id)
                  /\ t.evidence_refs = EvidenceOf(call[p].ctx, r)

\* a transaction with two resolved evidence values, and one of another call
C11_Witness ==
  /\ \E i \in 1..Len(ledger) : Len(ledger[i].evidence_refs) = 2
  /\ \E p, q \in Calls : p # q /\ call[p].written # <<>> /\ call[q].written # <<>>

\* the users that received a transaction in the call
WrittenUsers(p) == {call[p].written[k].user_id : k \in 1..Len(call[p].written)}

\* the users evaluate_user_badges was called for in the call
PassUsers(p) == {call[p].passes[k] : k \in 1..Len(call[p].passes)}

InBadgePhase(p) ==
  \/ call[p].pc \in {"badges", "find", "criteria", "award"}
  \/ call[p].passes # <<>>

RuleOf(p, rule_id) ==
  LET rules == Applicable(p)
  IN rules[CHOOSE n \in 1..Len(rules) : rules[n].rule_id = rule_id]

\* the side effects of one kind the calls have run
EffectsRun(kind) ==
  LET Count(p) == Cardinality({k \in 1..Len(call[p].effects) : call[p].effects[k].kind = kind})
      both == Count("c1") + Count("c2")
  IN both

RECURSIVE AlertUpdates(_)
AlertUpdates(ids) ==
  IF ids = {} THEN 0
  ELSE LET a == CHOOSE x \in ids : TRUE
       IN alerts[a].history + AlertUpdates(ids \ {a})

\* C13: a penalty transaction is in the ledger with exactly its rule's points
\* and with penalty_reason and original_alert_status set; a side effect runs
\* only in a call that has already written the transaction of a penalty rule
\* whose conditions held, that rule being the one that declares it; no write
\* to alerts or notifications comes from anything else.
C13_PenaltyThenSideEffects ==
  /\ \A p \in Calls : \A k \in 1..Len(call[p].written) :
       LET t == call[p].written[k]
           r == RuleOf(p, t.rule_id)
       IN r.type = "penalty" =>
            /\ t.points = r.points
            /\ \E i \in 1..Len(ledger) : ledger[i] = t
            /\ t.penalty_reason # NoneVal /\ t.original_alert_status # NoneVal
            /\ Truthy(r.penalty_reason) => t.penalty_reason = r.penalty_reason
            /\ Truthy(r.original_alert_status) =>
                 t.original_alert_status = r.original_alert_status
  /\ \A p \in Calls :
       call[p].pc = "effect" =>
         /\ call[p].rules[call[p].idx].type = "penalty"
         /\ call[p].written # <<>>
         /\ call[p].written[Len(call[p].written)] = call[p].txn
  /\ \A p \in Calls : \A k \in 1..Len(call[p].effects) :
       LET e == call[p].effects[k]
           r == RuleOf(p, e.rule_id)
       IN /\ r.type = "penalty"
          /\ ConditionsHold(call[p].ctx, r)
          /\ \E n \in 1..Len(r.side_effects) : r.side_effects[n].kind = e.kind
          /\ \E j \in 1..Len(call[p].written) : call[p].written[j].rule_id = e.rule_id
  /\ Len(notifications) = EffectsRun("create_notification")
  /\ AlertUpdates(AlertIds) = EffectsRun("update_alert")

\* a user on a level with a multiplier was penalised and the effects have run
C13_Witness ==
  /\ \E i \in 1..Len(ledger) :
       /\ ledger[i].points < 0
       /\ Balance(SubSeq(ledger, 1, i - 1), ledger[i].user_id) >= 1500
  /\ Len(notifications) > 0
  /\ \E a \in AlertIds : alerts[a].history > 0

\* the side effects of a rule that the call has run, and those that failed
RanEffects(p, rule_id) ==
  {k \in 1..Len(call[p].effects) : call[p].effects[k].rule_id = rule_id}

FailedEffects(p, rule_id) ==
  {k \in 1..Len(call[p].failedEffects) : call[p].failedEffects[k].rule_id = rule_id}

\* the call is past the side effects of the rule
EffectsOver(p, rule_id) ==
  /\ \E k \in 1..Len(call[p].written) : call[p].written[k].rule_id = rule_id
  /\ ~(call[p].pc = "effect" /\ call[p].rules[call[p].idx].rule_id = rule_id)

\* C14 (as claimed): when execute_side_effects is over, every declared effect
\* of the rule has either run or failed: an effect that failed has not kept
\* any other effect of the list from running.
C14_BestEffortFanOut ==
  \A p \in Calls : \A n \in 1..Len(Applicable(p)) :
    LET r == Applicable(p)[n]
    IN (r.type = "penalty" /\ EffectsOver(p, r.rule_id)) =>
         Cardinality(RanEffects(p, r.rule_id)) + Cardinality(FailedEffects(p, r.rule_id))
           = Len(r.side_effects)

\* the ids a document defines
DefinedIds(doc) == {IdOf(AllDefinitions(doc)[i]) : i \in 1..Len(AllDefinitions(doc))}

\* C15 (as claimed): whatever reload() did, a query finds the loader loaded
\* and every definition of its document indexed: no query meets an unloaded
\* loader or an emptied index.
C15_ReloadAtomic ==
  /\ loader._loaded
  /\ DefinedIds(loader._rules_doc) \subseteq DOMAIN loader._rules_cache
  /\ "raised" \notin DOMAIN loader.seen

\* C16: as long as the source is the one the loader first loaded on an empty
\* cache, after any number of reload() calls the index has the same ids, the
\* same number of entries and the same definitions as after that first load.
C16_ReloadIdempotent ==
  loader.sameSource =>
    /\ loader._loaded
    /\ DOMAIN loader._rules_cache = DOMAIN loader.base
    /\ Cardinality(DOMAIN loader._rules_cache) = Cardinality(DOMAIN loader.base)
    /\ loader._rules_cache = loader.base

\* three reloads of an unchanged source that reuses ids
C16_Witness ==
  /\ loader.sameSource
  /\ loader.calls = 3
  /\ file = [st |-> "ok", doc |-> DocDuplicateIds]

\* C17 (as claimed): a loaded document has no id twice, and the index has one
\* entry for each of its definitions and for nothing else.
C17_IdsUnique ==
  loader._loaded =>
    LET all == AllDefinitions(loader._rules_doc)
    IN /\ \A i, j \in 1..Len(all) : i < j => IdOf(all[i]) # IdOf(all[j])
       /\ Cardinality(DOMAIN loader._rules_cache) = Len(all)
       /\ \A i \in 1..Len(all) : get_rule_by_id(loader, IdOf(all[i])) = Ok(all[i])

\* the positions at which a rule stands in a list
PositionsIn(rules, r) == {i \in 1..Len(rules) : rules[i] = r}

\* C18: what get_rules_by_event(event) returns holds only active rules bound
\* to the event and taken from the point and penalty lists, holds every such
\* rule, and lists them in the order of the catalog: the point rules in their
\* order, then the penalty rules in theirs; a second call on the same catalog
\* returns the same sequence.
C18_RulesByEvent ==
  (loader.seen.q = "get_rules_by_event" /\ "rules" \in DOMAIN loader.seen) =>
    LET rs == loader.seen.rules
        doc == loader._rules_doc
        declared == doc.point_rules \o doc.penalty_rules
        Bound(r) == r.active /\ r.event = loader.seen.event
    IN /\ \A i \in 1..Len(rs) :
            /\ rs[i].active
            /\ rs[i].event = loader.seen.event
            /\ PositionsIn(declared, rs[i]) # {}
            /\ rs[i].type # "exclusion"
            /\ "badge_id" \notin DOMAIN rs[i]
       /\ \A n \in 1..Len(declared) :
            Bound(declared[n]) => \E i \in 1..Len(rs) : rs[i] = declared[n]
       /\ Len(rs) = Cardinality({n \in 1..Len(declared) : Bound(declared[n])})
       /\ \A i, j \in 1..Len(rs) :
            i < j => \E a \in PositionsIn(declared, rs[i]), b \in PositionsIn(declared, rs[j]) : a < b
       /\ rs = get_rules_by_event(doc, loader.seen.event)

\* a query that returned point rules and a penalty rule and left out an
\* inactive rule bound to the event
C18_Witness ==
  /\ loader.seen.q = "get_rules_by_event"
  /\ "rules" \in DOMAIN loader.seen
  /\ \E i, j \in 1..Len(loader.seen.rules) :
       /\ i < j
       /\ loader.seen.rules[i].type = "points"
       /\ loader.seen.rules[j].type = "penalty"
  /\ \E n \in 1..Len(loader._rules_doc.point_rules) :
       /\ ~loader._rules_doc.point_rules[n].active
       /\ loader._rules_doc.point_rules[n].event = loader.seen.event
  /\ loader.calls > 0

\* one filter of a criterion against one stored transaction
FilterHolds(doc, f, user_id) ==
  MatchEntry(DocField(doc, f.field), [op |-> f.op, value |-> FilterValue(f, user_id)])

\* the transactions that satisfy every filter of the list
SatisfyingAll(docs, filters, user_id) ==
  {i \in 1..Len(docs) : \A k \in 1..Len(filters) : FilterHolds(docs[i], filters[k], user_id)}

\* a count criterion with its filters taken together
CriterionHolds(cond, user_id, txns) ==
  /\ cond.kind = "count"
  /\ cond.entity = "PointTxn"
  /\ _compare_values(Cardinality(SatisfyingAll(txns, cond.filters, user_id)),
                     cond.operator, cond.threshold) = Ok(TRUE)

\* C19 (as claimed): when a call has returned, each user it ran a badge pass
\* for holds a badge exactly if the badge is active, of individual scope and
\* all its criteria hold for the user, and the awards of those users are the
\* ones the passes returned and the ones they skipped as already awarded.
C19_AwardIff ==
  \A p \in Calls :
    call[p].pc = "done" =>
      \A u \in PassUsers(p) :
        /\ \A n \in 1..Len(catalog.badge_rules) :
             LET b == catalog.badge_rules[n]
             IN HasAward(awards, u, b.badge_id) <=>
                  /\ b.active
                  /\ b.type = "individual"
                  /\ \A k \in 1..Len(b.conditions) : CriterionHolds(b.conditions[k], u, ledger)
        /\ {awards[i].badge_id : i \in {j \in 1..Len(awards) : awards[j].user_id = u}}
             = {call[p].results.badges_awarded[i].badge_id :
                  i \in {j \in 1..Len(call[p].results.badges_awarded) :
                           call[p].results.badges_awarded[j].user_id = u}}
               \cup {s[2] : s \in {t \in call[p].skipped : t[1] = u}}

\* C20 (as claimed): the transactions a criterion counts are those that
\* satisfy every one of its filters, current_user standing for the evaluated
\* user.
C20_FiltersAnded ==
  \A p \in Calls :
    call[p].pc = "criteria" =>
      LET cond == BadgeRules[call[p].bidx].conditions[call[p].cidx]
      IN cond.entity = "PointTxn" =>
           Matching(ledger, _build_query_from_filters(cond.filters, call[p].user_id))
             = SatisfyingAll(ledger, cond.filters, call[p].user_id)

(***************************************************************************)
(* C21: two calls for different users, interleaved or one after the other  *)
(***************************************************************************)
\* what a ledger entry is compared by
Entries(txns) ==
  [i \in 1..Len(txns) |-> [user_id |-> txns[i].user_id, rule_id |-> txns[i].rule_id,
                           points |-> txns[i].points]]

\* the rule loop of a call that runs alone, no write failing: the entries it
\* appends to the entries led
RECURSIVE RunRules(_, _, _)
RunRules(rules, ctx, led) ==
  IF rules = <<>> THEN led
  ELSE LET rule == Head(rules)
           user == _resolve_recipient(rule.recipient, ctx)
           team_id == EntityGet(ctx, "Remediation", "team_id")
           points == IF rule.type = "points"
                     THEN calculate_from_rule(catalog.config, rule.points,
                            calculate_user_level(Balance(led, user.s)))
                     ELSE rule.points
           writes == /\ evaluate_all(ctx, rule.conditions) = Ok(TRUE)
                     /\ user # NoneVal
                     /\ team_id.ok
                     /\ BuildTxn(0, rule, user.s, team_id.v, points, ctx,
                                 rule.type = "penalty").ok
       IN RunRules(Tail(rules), ctx,
                   IF writes THEN Append(led, [user_id |-> user.s,
                                               rule_id |-> rule.rule_id,
                                               points |-> points])
                   ELSE led)

\* the criteria of a badge, read one after the other until one fails
RECURSIVE CriteriaMet(_, _, _)
CriteriaMet(conds, user_id, led) ==
  IF conds = <<>> THEN Ok(TRUE)
  ELSE LET r == EvaluateCriterion(Head(conds), user_id, led)
       IN IF ~r.ok THEN Raised
          ELSE IF ~r.v THEN Ok(FALSE)
          ELSE CriteriaMet(Tail(conds), user_id, led)

\* evaluate_user_badges for one user, running alone: the pairs awarded, and
\* whether it returned
RECURSIVE UserPass(_, _, _, _)
UserPass(from, user_id, led, aw) ==
  LET n == NextIndividual(BadgeRules, from)
  IN IF n = 0 THEN [ok |-> TRUE, aw |-> aw]
     ELSE IF <<user_id, BadgeRules[n].badge_id>> \in aw
     THEN UserPass(n + 1, user_id, led, aw)
     ELSE LET met == CriteriaMet(BadgeRules[n].conditions, user_id, led)
          IN IF ~met.ok THEN [ok |-> FALSE, aw |-> aw]
             ELSE UserPass(n + 1, user_id, led,
                           IF met.v THEN aw \cup {<<user_id, BadgeRules[n].badge_id>>}
                           ELSE aw)

\* the badge phase over the users in one order; an exception ends it
RECURSIVE BadgePass(_, _, _)
BadgePass(order, led, aw) ==
  IF order = <<>> THEN aw
  ELSE LET r == UserPass(1, Head(order), led, aw)
       IN IF ~r.ok THEN r.aw ELSE BadgePass(Tail(order), led, r.aw)

\* the orders in which a set may yield its members
Orders(S) ==
  {o \in [1..Cardinality(S) -> S] : \A i, j \in DOMAIN o : o[i] = o[j] => i = j}

\* process_event run alone from the entries and awards of st, no write failing:
\* the entries and awards it may leave
RunCall(event, ctx, st) ==
  LET excl == _should_exclude(get_rules_by_type_exclusion(catalog), ctx)
  IN IF ~excl.ok \/ excl.v THEN {st}
     ELSE LET led == RunRules(get_rules_by_event(catalog, event), ctx, st.led)
              users == {led[i].user_id : i \in (Len(st.led) + 1)..Len(led)}
          IN {[led |-> led, aw |-> BadgePass(o, led, st.aw)] : o \in Orders(users)}

\* the second call made after the first has returned
OneAfterTheOther(p, q) ==
  UNION {RunCall(call[q].event, call[q].ctx, st) :
           st \in RunCall(call[p].event, call[p].ctx, [led |-> <<>>, aw |-> {}])}

\* the same entries, in whatever order
SameEntries(s, t) ==
  /\ Len(s) = Len(t)
  /\ \A i \in 1..Len(s) :
       Cardinality({k \in 1..Len(s) : s[k] = s[i]})
         = Cardinality({k \in 1..Len(t) : t[k] = s[i]})

\* the users the rules of a call resolve as recipients
Recipients(p) ==
  {_resolve_recipient(call[p].rules[i].recipient, call[p].ctx).s :
     i \in {k \in 1..Len(call[p].rules) :
              /\ ConditionsHold(call[p].ctx, call[p].rules[k])
              /\ _resolve_recipient(call[p].rules[k].recipient, call[p].ctx) # NoneVal}}

AwardPairs == {<<awards[i].user_id, awards[i].badge_id>> : i \in 1..Len(awards)}

\* both calls are over, no write failed, and their recipients are different users
DifferentUsersDone ==
  /\ \A p \in Calls : call[p].pc \in {"done", "raised"}
  /\ faults = 0
  /\ Recipients("c1") # {} /\ Recipients("c2") # {}
  /\ Recipients("c1") \cap Recipients("c2") = {}

\* C21: two process_event calls whose recipients are different users leave,
\* however their steps interleave at the persistence awaits, the ledger entries
\* (user, rule, points) and the awards that the two calls leave when one runs
\* after the other has returned
C21_DifferentUsersSerializable ==
  DifferentUsersDone =>
    \E st \in OneAfterTheOther("c1", "c2") \cup OneAfterTheOther("c2", "c1") :
      /\ SameEntries(Entries(ledger), st.led)
      /\ AwardPairs = st.aw

(***************************************************************************)
(* C22: comparisons with None                                              *)
(***************************************************************************)
\* what the rule for None gives for an operator and two operands
NoneRule(left, op, right) ==
  CASE op = "==" -> left = right
    [] op = "!=" -> left # right
    [] OTHER -> FALSE

\* compare has answered a comparison one of whose operands is None
ComparedNone ==
  /\ probe.in.fn = "compare"
  /\ probe.out # NotAsked
  /\ probe.in.op \in COMPARISON_OPERATORS
  /\ probe.in.left = NoneVal \/ probe.in.right = NoneVal

\* evaluate has answered a condition on a field its entity, a mapping in the
\* context, does not have
EvaluatedMissing ==
  /\ probe.in.fn = "evaluate"
  /\ probe.out # NotAsked
  /\ probe.in.ctx[probe.in.cond.ref[1]].st = "dict"
  /\ probe.in.ctx[probe.in.cond.ref[1]].f[probe.in.cond.ref[2]] = NoneVal

\* C22: with None as left or right operand, == and != answer the equality and
\* the inequality of the operands and <, >, <=, >=, IN and NOT IN answer false,
\* none of them raising; a condition on a field missing from a present entity
\* is such a comparison: it raises nothing and is false unless it is a != or
\* a comparison with None itself
C22_NoneOperands ==
  /\ ComparedNone =>
       probe.out.compare = Ok(NoneRule(probe.in.left, probe.in.op, probe.in.right))
  /\ EvaluatedMissing =>
       probe.out.evaluate = Ok(NoneRule(NoneVal, probe.in.cond.op, probe.in.cond.rhs))

\* a condition that orders a missing quality against 30 has been evaluated:
\* None < 30 is false
C22_Witness ==
  /\ EvaluatedMissing
  /\ probe.in.cond = Cmp(<<"Alert", "quality">>, "<", IntV(30))
  /\ probe.out.evaluate = Ok(FALSE)

(***************************************************************************)
(* C23: temporal conditions                                                *)
(***************************************************************************)
\* the seconds in one unit, whichever way the unit is spelled
SecondsPerUnit(unit) ==
  CASE unit \in {"second", "seconds"} -> 1
    [] unit \in {"minute", "minutes"} -> 60
    [] unit \in {"hour", "hours"} -> 3600
    [] unit \in {"day", "days"} -> 86400

NumericallyHolds(a, op, b) ==
  CASE op = "==" -> a = b
    [] op = "!=" -> a # b
    [] op = "<" -> a < b
    [] op = ">" -> a > b
    [] op = "<=" -> a <= b
    [] op = ">=" -> a >= b

\* evaluate has answered a temporal condition on two timestamps of the context
EvaluatedTemporal ==
  /\ probe.in.fn = "evaluate"
  /\ probe.in.cond.kind = "time"
  /\ probe.out # NotAsked

\* C23: the temporal condition (ref1 - ref2) op N unit evaluates to
\* (ts1 - ts2 in seconds) op (N times the seconds in the unit), for each of
\* ==, !=, <, >, <=, >= and each spelling second(s), minute(s), hour(s), day(s)
C23_TemporalCondition ==
  EvaluatedTemporal =>
    LET cond == probe.in.cond
        ts1 == probe.in.ctx[cond.ref[1]].f[cond.ref[2]].ts
        ts2 == probe.in.ctx[cond.ref2[1]].f[cond.ref2[2]].ts
    IN probe.out.evaluate =
         Ok(NumericallyHolds(ts1 - ts2, cond.op, cond.rhs.n * SecondsPerUnit(cond.unit)))

(***************************************************************************)
(* C24: calculate                                                          *)
(***************************************************************************)
\* the integer nearest to x tenths, the even one of two equally near
Rounded(x) ==
  CHOOSE n \in (x \div 10 - 1)..(x \div 10 + 1) :
    \A k \in (x \div 10 - 1)..(x \div 10 + 1) :
      LET dn == IF 10 * n >= x THEN 10 * n - x ELSE x - 10 * n
          dk == IF 10 * k >= x THEN 10 * k - x ELSE x - 10 * k
      IN dn < dk \/ (dn = dk /\ (n % 2 = 0 \/ k = n))

\* calculate has answered
Calculated == probe.in.fn = "calculate" /\ probe.out # NotAsked

\* base x multiplier + bonus - penalty of the call, in tenths
CalculatedSum ==
  probe.in.base_points * probe.in.multiplier
  + 10 * probe.in.bonus_points - 10 * probe.in.penalty_points

Steps == {500, 1500, 4000, 10000}

\* calculate_user_level has answered for two totals
Levelled == probe.in.fn = "calculate_user_level" /\ probe.out # NotAsked

\* C25: calculate_user_level returns a level in 1..5, never lower for a higher
\* total, one step up exactly at 500, 1500, 4000 and 10000, 5 for every total
\* of 10000 or more, and level 1 for a negative total
C25_UserLevel ==
  Levelled =>
    LET a == probe.in.a
        b == probe.in.b
        la == probe.out.levels[1]
        lb == probe.out.levels[2]
    IN /\ la \in 1..5
       /\ a <= b => la <= lb
       /\ la = 1 + Cardinality({t \in Steps : a >= t})
       /\ a >= 10000 => la = 5
       /\ a < 0 => la = 1

\* the levels of 499 and 500 points have been asked for: 1 and 2
C25_Witness ==
  /\ Levelled
  /\ probe.in.a = 499 /\ probe.in.b = 500
  /\ probe.out.levels = <<1, 2>>

(***************************************************************************)
(* C26: calculate_progress_to_next_level                                   *)
(***************************************************************************)
\* calculate_progress_to_next_level has answered
Progressed == probe.in.fn = "calculate_progress_to_next_level" /\ probe.out # NotAsked

\* the lowest total of a level
LevelMinimum(level) == (<<0, 500, 1500, 4000, 10000>>)[level]

\* C26: for every integer total, the progress percentage is between 0 and 100
\* and points_needed is not negative; below the top level next_level is
\* current_level + 1 and the total plus points_needed is the minimum of the
\* next level; at the top level next_level is none, points_needed 0 and the
\* progress 100
C26_Progress ==
  Progressed =>
    LET r == probe.out.progress
    IN /\ r.progress_percentage >= 0 /\ r.progress_percentage <= 10000
       /\ r.points_needed >= 0
       /\ r.current_level < 5 =>
            /\ r.next_level = IntV(r.current_level + 1)
            /\ probe.in.current_points + r.points_needed
                 = LevelMinimum(r.current_level + 1)
       /\ r.current_level = 5 =>
            /\ r.next_level = NoneVal
            /\ r.points_needed = 0
            /\ r.progress_percentage = 10000

(***************************************************************************)
(* C27: one catalog for every phase                                        *)
(***************************************************************************)
\* the ids of the rules and of the badges of a catalog
RuleIdsOf(doc) ==
  {doc.point_rules[i].rule_id : i \in 1..Len(doc.point_rules)}
  \cup {doc.penalty_rules[i].rule_id : i \in 1..Len(doc.penalty_rules)}

BadgeIdsOf(doc) == {doc.badge_rules[i].badge_id : i \in 1..Len(doc.badge_rules)}

\* the badges a call has looked up, evaluated or skipped as awarded
BadgesSeen(p) ==
  {x[2] : x \in call[p].evaluatedFor \cup call[p].skipped}
  \cup (IF call[p].pc \in {"find", "criteria", "award"}
        THEN {BadgeRules[call[p].bidx].badge_id} ELSE {})

\* C27: an engine constructed with a rule loader of its own takes the rules it
\* selects and the badges of its badge pass from the catalog of that loader,
\* never from another catalog
C27_OneCatalog ==
  \A p \in Calls :
    /\ \A i \in 1..Len(call[p].visited) : call[p].visited[i] \in RuleIdsOf(catalog)
    /\ BadgesSeen(p) \subseteq BadgeIdsOf(catalog)
    /\ \A i \in 1..Len(awards) : awards[i].badge_id \in BadgeIdsOf(catalog)

(***************************************************************************)
(* C28: the transactions of a result and its count of triggered rules      *)
(***************************************************************************)
\* C28: in every result process_event returns, the transactions listed in
\* points_awarded and penalties_applied are no more than rules_triggered,
\* also when a side effect of a penalty rule fails after its transaction is
\* written
C28_TransactionsWithinTriggered ==
  \A p \in Calls :
    call[p].pc = "done" =>
      Len(call[p].results.points_awarded) + Len(call[p].results.penalties_applied)
        <= call[p].results.rules_triggered

(***************************************************************************)
(* C29: a rule that holds and has no recipient                             *)
(***************************************************************************)
\* the recipient expression names no user in the context: its entity is
\* absent or null, its field is missing, or the value is falsy
NoRecipient(ctx, expr) ==
  \/ ctx[expr[1]].st # "dict"
  \/ ~Truthy(ctx[expr[1]].f[expr[2]])

\* the rules the loop of the call is done with, by position
Processed(p) == {i \in 1..Len(call[p].rules) : i < call[p].idx}

\* those of them that hold and have no recipient
Unaddressed(p) ==
  {i \in Processed(p) :
     /\ ConditionsHold(call[p].ctx, call[p].rules[i])
     /\ NoRecipient(call[p].ctx, call[p].rules[i].recipient)}

\* the rules of a call that returned True to the rule loop: their conditions
\* hold and nothing was raised
Returned(p) ==
  {i \in Processed(p) :
     /\ ConditionsHold(call[p].ctx, call[p].rules[i])
     /\ \A k \in 1..Len(call[p].errors) : call[p].errors[k] # call[p].rules[i].rule_id}

\* C29: a point or penalty rule whose conditions hold and whose recipient
\* expression resolves to nothing writes no transaction and runs no side
\* effect, yet is one of the rules counted in rules_triggered; the badge pass
\* covers the users of written transactions only
C29_NoRecipient ==
  \A p \in Calls :
    /\ \A i \in Unaddressed(p) :
         LET id == call[p].rules[i].rule_id
         IN /\ \A k \in 1..Len(call[p].written) : call[p].written[k].rule_id # id
            /\ \A k \in 1..Len(call[p].lost) : call[p].lost[k].rule_id # id
            /\ \A k \in 1..Len(call[p].effects) : call[p].effects[k].rule_id # id
            /\ \A k \in 1..Len(call[p].failedEffects) :
                 call[p].failedEffects[k].rule_id # id
            /\ i \in Returned(p)
    /\ call[p].results.rules_triggered = Cardinality(Returned(p))
    /\ PassUsers(p) \cup call[p].users \subseteq WrittenUsers(p)

\* a call has returned with a rule that held for an unassigned remediation and
\* a penalty written for the owner: two rules triggered, one transaction, and
\* a badge pass for the owner alone
C29_Witness ==
  \E p \in Calls :
    /\ call[p].pc = "done"
    /\ call[p].ctx.Remediation = RemediationUnassigned
    /\ Unaddressed(p) # {}
    /\ call[p].results.rules_triggered = 2
    /\ Len(call[p].written) = 1
    /\ call[p].passes = <<"u2">>

\* a load() or a reload() has succeeded on the loader
LoadedOnce == loader._rules_doc # NoneVal

\* C30 (as claimed): on a loaded loader the by-id index holds exactly the ids
\* the document loaded last defines, and get_rule_by_id answers with a rule
\* for exactly those ids; a query made before any load has succeeded raises.
C30_IndexIsCurrentSource ==
  /\ loader._loaded =>
        /\ DOMAIN loader._rules_cache = DefinedIds(loader._rules_doc)
        /\ ("found" \in DOMAIN loader.seen) =>
              (loader.seen.found # NoneVal
                 <=> loader.seen.id \in DefinedIds(loader._rules_doc))
  /\ (~LoadedOnce /\ loader.seen # NotAsked) => "raised" \in DOMAIN loader.seen

====
